---- MODULE Spec2Model ----
(***************************************************************************)
(* Model of the mapping engine of jdemooijau/mappingassistant:             *)
(*   - the mapping store          (mapping-store, src/unnamed/part_010)    *)
(*   - the command parser         (mapping-commands, src/unnamed/part_010) *)
(*   - the instruction processor  (src/lib/ai-mapping-processor.ts)        *)
(*                                                                         *)
(* Text is modelled as a sequence of one-character strings, so that the    *)
(* regular expressions, substring tests and splits of the source are       *)
(* computed character by character.  Numbers in [0,1] (confidences and     *)
(* similarity scores) are integers in units of 1/10000.  Time stamps and    *)
(* the free-text audit fields (reasoning, transformation_logic,            *)
(* user_command) of a mapping record are not modelled.                      *)
(***************************************************************************)
EXTENDS Integers, Sequences, FiniteSets, TLC

\* ------------------------------------------------------------------------
\* Text primitives (String.prototype.* as used by the source)
\* ------------------------------------------------------------------------

UpperChars == <<"A","B","C","D","E","F","G","H","I","J","K","L","M",
                "N","O","P","Q","R","S","T","U","V","W","X","Y","Z">>

LowerChars == <<"a","b","c","d","e","f","g","h","i","j","k","l","m",
                "n","o","p","q","r","s","t","u","v","w","x","y","z">>

DigitChars == <<"0","1","2","3","4","5","6","7","8","9">>

\* the double quote and the backtick are written as the tokens "DQUOTE" and
\* "BACKTICK"
QuoteChars == {"DQUOTE", "BACKTICK", "'"}

SpaceChars == {" "}

toLowerChar(c) ==
  IF \E i \in DOMAIN UpperChars : UpperChars[i] = c
  THEN LowerChars[CHOOSE i \in DOMAIN UpperChars : UpperChars[i] = c]
  ELSE c

toLowerCase(s) == IF s = <<>> THEN <<>> ELSE [i \in 1..Len(s) |-> toLowerChar(s[i])]

\* s.trim()
trim(s) ==
  LET nonSpace == {i \in 1..Len(s) : s[i] \notin SpaceChars}
  IN IF nonSpace = {} THEN <<>>
     ELSE LET lo == CHOOSE i \in nonSpace : \A j \in nonSpace : i <= j
              hi == CHOOSE i \in nonSpace : \A j \in nonSpace : j <= i
          IN SubSeq(s, lo, hi)

\* lit occurs in s at position pos
startsWithAt(s, pos, lit) ==
  /\ pos + Len(lit) - 1 <= Len(s)
  /\ \A i \in 1..Len(lit) : s[pos + i - 1] = lit[i]

\* s.includes(sub)
includes(s, sub) == \E p \in 1..(Len(s) - Len(sub) + 1) : startsWithAt(s, p, sub)

\* s.replace(/[_-]/g, "")
RECURSIVE stripSeparators(_)
stripSeparators(s) ==
  IF s = <<>> THEN <<>>
  ELSE IF Head(s) \in {"_", "-"} THEN stripSeparators(Tail(s))
       ELSE <<Head(s)>> \o stripSeparators(Tail(s))

Min3(a, b, c) == IF a <= b /\ a <= c THEN a ELSE IF b <= c THEN b ELSE c

\* one row of the edit-distance matrix: acc holds matrix[j][0..Len(acc)-1]
RECURSIVE LevBuildRow(_, _, _, _)
LevBuildRow(str1, ch, prev, acc) ==
  IF Len(acc) = Len(str1) + 1 THEN acc
  ELSE LET i == Len(acc)
           indicator == IF str1[i] = ch THEN 0 ELSE 1
       IN LevBuildRow(str1, ch, prev,
                      Append(acc, Min3(acc[i] + 1, prev[i + 1] + 1, prev[i] + indicator)))

RECURSIVE LevRows(_, _, _, _)
LevRows(str1, str2, j, prev) ==
  IF j > Len(str2) THEN prev[Len(str1) + 1]
  ELSE LevRows(str1, str2, j + 1, LevBuildRow(str1, str2[j], prev, <<j>>))

levenshteinDistance(str1, str2) ==
  LevRows(str1, str2, 1, [i \in 1..(Len(str1) + 1) |-> i - 1])

\* ------------------------------------------------------------------------
\* Regular expressions of COMMAND_PATTERNS: a pattern is a sequence of
\* elements, matched with JavaScript's priorities (leftmost start, greedy
\* quantifiers, alternatives in order, backtracking)
\* ------------------------------------------------------------------------

Lit(s)   == [t |-> "lit", s |-> s]          \* literal text
Alt(a)   == [t |-> "alt", a |-> a]          \* (?:x|y|z)
Ws       == [t |-> "ws"]                    \* \s+
Opt(r)   == [t |-> "opt", r |-> r]          \* (?: ... )?
OptQuote == [t |-> "optq"]                  \* ["`']?
CapField == [t |-> "cap", cls |-> "field"]  \* ([^"`'\s]+)
CapWord  == [t |-> "cap", cls |-> "word"]   \* ([a-z_]+)
CapNum   == [t |-> "capnum"]                \* (\d+(?:\.\d+)?)

IsDigit(c) == \E i \in DOMAIN DigitChars : DigitChars[i] = c

InClass(c, cls) ==
  CASE cls = "ws"    -> c \in SpaceChars
    [] cls = "field" -> c \notin (QuoteChars \cup SpaceChars)
    [] cls = "word"  -> c = "_" \/ \E i \in DOMAIN LowerChars : LowerChars[i] = c
    [] cls = "digit" -> IsDigit(c)

\* length of the longest run of class cls starting at pos
RunLen(s, pos, cls) ==
  LET max == Len(s) - pos + 1
  IN CHOOSE n \in 0..max :
       /\ \A i \in 0..(n - 1) : InClass(s[pos + i], cls)
       /\ (n = max \/ ~InClass(s[pos + n], cls))

\* length matched by \d+(?:\.\d+)? at pos (0: no match); the element is the
\* last of its pattern, so the greedy choice is the match
NumLen(s, pos) ==
  LET n1 == RunLen(s, pos, "digit")
  IN IF n1 = 0 THEN 0
     ELSE IF pos + n1 <= Len(s) /\ s[pos + n1] = "." /\ RunLen(s, pos + n1 + 1, "digit") > 0
          THEN n1 + 1 + RunLen(s, pos + n1 + 1, "digit")
          ELSE n1

NoMatch == [ok |-> FALSE, caps |-> <<>>]

RECURSIVE MatchFrom(_, _, _, _, _)
RECURSIVE MatchAlt(_, _, _, _, _, _)
RECURSIVE MatchRun(_, _, _, _, _, _, _)

\* match elements k.. of re against s from pos on, with the groups captured so far
MatchFrom(re, k, s, pos, caps) ==
  IF k > Len(re) THEN [ok |-> TRUE, caps |-> caps]
  ELSE LET e == re[k] IN
    CASE e.t = "lit" ->
           IF startsWithAt(s, pos, e.s) THEN MatchFrom(re, k + 1, s, pos + Len(e.s), caps)
           ELSE NoMatch
      [] e.t = "alt" -> MatchAlt(re, k, s, pos, caps, 1)
      [] e.t = "ws" -> MatchRun(re, k, s, pos, caps, RunLen(s, pos, "ws"), FALSE)
      [] e.t = "cap" -> MatchRun(re, k, s, pos, caps, RunLen(s, pos, e.cls), TRUE)
      [] e.t = "opt" ->
           LET with == MatchFrom(e.r \o SubSeq(re, k + 1, Len(re)), 1, s, pos, caps)
           IN IF with.ok THEN with ELSE MatchFrom(re, k + 1, s, pos, caps)
      [] e.t = "optq" ->
           LET with == IF pos <= Len(s) /\ s[pos] \in QuoteChars
                       THEN MatchFrom(re, k + 1, s, pos + 1, caps)
                       ELSE NoMatch
           IN IF with.ok THEN with ELSE MatchFrom(re, k + 1, s, pos, caps)
      [] e.t = "capnum" ->
           LET n == NumLen(s, pos)
           IN IF n = 0 THEN NoMatch
              ELSE MatchFrom(re, k + 1, s, pos + n, Append(caps, SubSeq(s, pos, pos + n - 1)))

\* alternatives i.. of the "alt" element re[k], in order
MatchAlt(re, k, s, pos, caps, i) ==
  IF i > Len(re[k].a) THEN NoMatch
  ELSE LET lit == re[k].a[i]
           this == IF startsWithAt(s, pos, lit)
                   THEN MatchFrom(re, k + 1, s, pos + Len(lit), caps)
                   ELSE NoMatch
       IN IF this.ok THEN this ELSE MatchAlt(re, k, s, pos, caps, i + 1)

\* a "+" element taking n characters, then n-1, ... down to 1
MatchRun(re, k, s, pos, caps, n, capture) ==
  IF n = 0 THEN NoMatch
  ELSE LET caps2 == IF capture THEN Append(caps, SubSeq(s, pos, pos + n - 1)) ELSE caps
           this == MatchFrom(re, k + 1, s, pos + n, caps2)
       IN IF this.ok THEN this ELSE MatchRun(re, k, s, pos, caps, n - 1, capture)

RECURSIVE SearchFrom(_, _, _)
SearchFrom(re, s, pos) ==
  IF pos > Len(s) + 1 THEN NoMatch
  ELSE LET here == MatchFrom(re, 1, s, pos, <<>>)
       IN IF here.ok THEN here ELSE SearchFrom(re, s, pos + 1)

\* s.match(re): the groups of the leftmost match
RegexMatch(re, s) == SearchFrom(re, s, 1)

S_map      == <<"m", "a", "p">>
S_field    == <<"f", "i", "e", "l", "d">>
S_to       == <<"t", "o">>
S_create   == <<"c", "r", "e", "a", "t", "e">>
S_a        == <<"a">>
S_mapping  == <<"m", "a", "p", "p", "i", "n", "g">>
S_from     == <<"f", "r", "o", "m">>
S_connect  == <<"c", "o", "n", "n", "e", "c", "t">>
S_with     == <<"w", "i", "t", "h">>
S_update   == <<"u", "p", "d", "a", "t", "e">>
S_change   == <<"c", "h", "a", "n", "g", "e">>
S_modify   == <<"m", "o", "d", "i", "f", "y">>
S_the      == <<"t", "h", "e">>
S_for      == <<"f", "o", "r">>
S_delete   == <<"d", "e", "l", "e", "t", "e">>
S_remove   == <<"r", "e", "m", "o", "v", "e">>
S_unmap    == <<"u", "n", "m", "a", "p">>
S_set      == <<"s", "e", "t">>
S_transformation == <<"t", "r", "a", "n", "s", "f", "o", "r", "m", "a", "t", "i", "o", "n">>
S_type     == <<"t", "y", "p", "e">>
S_confidence == <<"c", "o", "n", "f", "i", "d", "e", "n", "c", "e">>

\* the ordered pattern list; groups names what each capture group is
COMMAND_PATTERNS == <<
  \* /map\s+(?:field\s+)?["`']?([^"`'\s]+)["`']?\s+to\s+["`']?([^"`'\s]+)["`']?/i
  [type |-> "create", groups |-> <<"sourceField", "targetField">>,
   pattern |-> <<Lit(S_map), Ws, Opt(<<Lit(S_field), Ws>>), OptQuote, CapField, OptQuote,
                 Ws, Lit(S_to), Ws, OptQuote, CapField, OptQuote>>],
  \* /create\s+(?:a\s+)?mapping\s+(?:from\s+)?["`']?([^"`'\s]+)["`']?\s+(?:to\s+)?["`']?([^"`'\s]+)["`']?/i
  [type |-> "create", groups |-> <<"sourceField", "targetField">>,
   pattern |-> <<Lit(S_create), Ws, Opt(<<Lit(S_a), Ws>>), Lit(S_mapping), Ws,
                 Opt(<<Lit(S_from), Ws>>), OptQuote, CapField, OptQuote, Ws,
                 Opt(<<Lit(S_to), Ws>>), OptQuote, CapField, OptQuote>>],
  \* /connect\s+["`']?([^"`'\s]+)["`']?\s+(?:with|to)\s+["`']?([^"`'\s]+)["`']?/i
  [type |-> "create", groups |-> <<"sourceField", "targetField">>,
   pattern |-> <<Lit(S_connect), Ws, OptQuote, CapField, OptQuote, Ws,
                 Alt(<<S_with, S_to>>), Ws, OptQuote, CapField, OptQuote>>],
  \* /(?:update|change|modify)\s+(?:the\s+)?mapping\s+(?:for\s+)?["`']?([^"`'\s]+)["`']?\s+to\s+["`']?([^"`'\s]+)["`']?/i
  [type |-> "update", groups |-> <<"sourceField", "targetField">>,
   pattern |-> <<Alt(<<S_update, S_change, S_modify>>), Ws, Opt(<<Lit(S_the), Ws>>),
                 Lit(S_mapping), Ws, Opt(<<Lit(S_for), Ws>>), OptQuote, CapField, OptQuote,
                 Ws, Lit(S_to), Ws, OptQuote, CapField, OptQuote>>],
  \* /(?:delete|remove|unmap)\s+(?:the\s+)?mapping\s+(?:for\s+)?["`']?([^"`'\s]+)["`']?/i
  [type |-> "delete", groups |-> <<"sourceField">>,
   pattern |-> <<Alt(<<S_delete, S_remove, S_unmap>>), Ws, Opt(<<Lit(S_the), Ws>>),
                 Lit(S_mapping), Ws, Opt(<<Lit(S_for), Ws>>), OptQuote, CapField, OptQuote>>],
  \* /(?:set|change)\s+(?:the\s+)?transformation\s+(?:type\s+)?(?:for\s+)?["`']?([^"`'\s]+)["`']?\s+to\s+([a-z_]+)/i
  [type |-> "modify_transformation", groups |-> <<"sourceField", "transformationType">>,
   pattern |-> <<Alt(<<S_set, S_change>>), Ws, Opt(<<Lit(S_the), Ws>>), Lit(S_transformation),
                 Ws, Opt(<<Lit(S_type), Ws>>), Opt(<<Lit(S_for), Ws>>), OptQuote, CapField,
                 OptQuote, Ws, Lit(S_to), Ws, CapWord>>],
  \* /(?:set|change)\s+(?:the\s+)?confidence\s+(?:for\s+)?["`']?([^"`'\s]+)["`']?\s+to\s+(\d+(?:\.\d+)?)/i
  [type |-> "set_confidence", groups |-> <<"sourceField", "confidence">>,
   pattern |-> <<Alt(<<S_set, S_change>>), Ws, Opt(<<Lit(S_the), Ws>>), Lit(S_confidence),
                 Ws, Opt(<<Lit(S_for), Ws>>), OptQuote, CapField, OptQuote, Ws, Lit(S_to),
                 Ws, CapNum>>]
>>

\* ------------------------------------------------------------------------
\* MappingCommandParser
\* ------------------------------------------------------------------------

\* parser confidences, in units of 1/10000
CONF_NO_AMBIGUITY == 9000
CONF_AMBIGUOUS    == 6000
CONF_UNKNOWN      == 3000
CONF_NONE         == 0

\* the value 1 in units of 1/10000
ONE == 10000

\* an absent (undefined) field of a command
Absent == <<>>

NullCommand == [type |-> "null"]

RECURSIVE DigitsToNat(_)
DigitsToNat(ds) ==
  IF ds = <<>> THEN 0
  ELSE 10 * DigitsToNat(SubSeq(ds, 1, Len(ds) - 1))
       + (CHOOSE i \in DOMAIN DigitChars : DigitChars[i] = ds[Len(ds)]) - 1

\* Number.parseFloat of a text matched by \d+(?:\.\d+)?, in units of 1/10000
\* (decimals beyond the fourth are dropped)
parseFloat(txt) ==
  LET dots == {i \in 1..Len(txt) : txt[i] = "."}
      dot == IF dots = {} THEN Len(txt) + 1 ELSE CHOOSE i \in dots : TRUE
      intPart == SubSeq(txt, 1, dot - 1)
      frac == SubSeq(txt, dot + 1, Len(txt))
      frac4 == [i \in 1..4 |-> IF i <= Len(frac) THEN frac[i] ELSE "0"]
  IN DigitsToNat(intPart) * ONE + DigitsToNat(frac4)

\* fields.find((f) => f.toLowerCase() === token.toLowerCase()), as a sequence
\* of zero or one fields
findExact(token, fields) ==
  LET hits == {i \in 1..Len(fields) : toLowerCase(fields[i]) = toLowerCase(token)}
  IN IF hits = {} THEN <<>>
     ELSE <<fields[CHOOSE i \in hits : \A j \in hits : i <= j]>>

findSimilarFields(target, fields) ==
  LET targetLower == toLowerCase(target)
      similar(field) ==
        LET fieldLower == toLowerCase(field)
        IN \/ includes(fieldLower, targetLower)
           \/ includes(targetLower, fieldLower)
           \/ levenshteinDistance(targetLower, fieldLower) <= 2
      all == SelectSeq(fields, similar)
  IN SubSeq(all, 1, IF Len(all) < 3 THEN Len(all) ELSE 3)

\* [...new Set(mentions)]: the first occurrence of every element, in order
RECURSIVE dedupe(_)
dedupe(seq) ==
  IF seq = <<>> THEN <<>>
  ELSE LET init == dedupe(SubSeq(seq, 1, Len(seq) - 1))
           last == seq[Len(seq)]
       IN IF \E i \in 1..Len(init) : init[i] = last THEN init ELSE Append(init, last)

parserExtractFieldMentions(command, availableFields) ==
  LET allFields == availableFields.source \o availableFields.target
      mentioned(field) == includes(toLowerCase(command), toLowerCase(field))
  IN dedupe(SelectSeq(allFields, mentioned))

\* the group named g of a match of pattern p (Absent when p has no such group)
groupOf(p, caps, g) ==
  LET idx == {i \in 1..Len(p.groups) : p.groups[i] = g}
  IN IF idx = {} THEN Absent ELSE caps[CHOOSE i \in idx : TRUE]

\* the body of the loop of parseCommand for a pattern p that matched
parseMatched(command, p, caps, availableFields) ==
  LET rawSource == groupOf(p, caps, "sourceField")
      rawTarget == groupOf(p, caps, "targetField")
      rawConf   == groupOf(p, caps, "confidence")
      exactS == IF rawSource = Absent THEN <<>> ELSE findExact(rawSource, availableFields.source)
      exactT == IF rawTarget = Absent THEN <<>> ELSE findExact(rawTarget, availableFields.target)
      similarS == IF rawSource = Absent \/ exactS # <<>> THEN <<>>
                  ELSE findSimilarFields(rawSource, availableFields.source)
      similarT == IF rawTarget = Absent \/ exactT # <<>> THEN <<>>
                  ELSE findSimilarFields(rawTarget, availableFields.target)
      sourceField == IF exactS # <<>> THEN exactS[1] ELSE rawSource
      targetField == IF exactT # <<>> THEN exactT[1] ELSE rawTarget
      parsed == IF rawConf = Absent THEN 0 ELSE parseFloat(rawConf)
      conf == IF rawConf = Absent THEN Absent
              ELSE IF parsed > ONE THEN <<parsed \div 100>> ELSE <<parsed>>
      ambS == IF similarS # <<>> THEN <<[kind |-> "source_not_found", field |-> rawSource]>>
              ELSE <<>>
      ambT == IF similarT # <<>> THEN <<[kind |-> "target_not_found", field |-> rawTarget]>>
              ELSE <<>>
      ambC == IF conf # Absent /\ (conf[1] < 0 \/ conf[1] > ONE)
              THEN <<[kind |-> "confidence_range", field |-> rawConf]>> ELSE <<>>
      ambiguities == ambS \o ambT \o ambC
      suggestions == (IF similarS # <<>> THEN <<similarS>> ELSE <<>>)
                     \o (IF similarT # <<>> THEN <<similarT>> ELSE <<>>)
  IN [command |-> [type |-> p.type,
                   originalCommand |-> command,
                   sourceField |-> sourceField,
                   targetField |-> targetField,
                   transformationType |-> groupOf(p, caps, "transformationType"),
                   confidence |-> conf],
      confidence |-> IF ambiguities = <<>> THEN CONF_NO_AMBIGUITY ELSE CONF_AMBIGUOUS,
      ambiguities |-> ambiguities,
      suggestions |-> suggestions]

RECURSIVE parseFromPattern(_, _, _, _)
parseFromPattern(command, normalizedCommand, availableFields, k) ==
  IF k > Len(COMMAND_PATTERNS)
  THEN LET fieldMentions == parserExtractFieldMentions(command, availableFields)
       IN IF fieldMentions # <<>>
          THEN [command |-> [type |-> "unknown", originalCommand |-> command],
                confidence |-> CONF_UNKNOWN,
                ambiguities |-> <<[kind |-> "not_recognized", field |-> Absent]>>,
                suggestions |-> <<fieldMentions>>]
          ELSE [command |-> NullCommand,
                confidence |-> CONF_NONE,
                ambiguities |-> <<[kind |-> "no_command", field |-> Absent]>>,
                suggestions |-> <<>>]
  ELSE LET match == RegexMatch(COMMAND_PATTERNS[k].pattern, normalizedCommand)
       IN IF match.ok
          THEN parseMatched(command, COMMAND_PATTERNS[k], match.caps, availableFields)
          ELSE parseFromPattern(command, normalizedCommand, availableFields, k + 1)

parseCommand(command, availableFields) ==
  parseFromPattern(command, toLowerCase(trim(command)), availableFields, 1)

\* ------------------------------------------------------------------------
\* The mapping store (useMappingStore).  A store value is a record
\*   [mappings, conflicts, documentId, idCounter];
\* a mapping is [id, source_field, target_field, transformation_type,
\* confidence, status, user_modified]; a conflict is [id, type,
\* affected_mappings].  The operations are functions from store to store.
\* ------------------------------------------------------------------------

\* documentId: null
NoDocument == 0

\* `mapping-${documentId}-${index}`
DocMappingId(documentId, index) == <<"mapping-doc", documentId, index>>

\* `mapping-${Date.now()}-${Math.random().toString(36).substr(2, 9)}`: the
\* n-th identifier drawn; time stamp plus nine random characters never repeat
GenMappingId(n) == <<"mapping-gen", n, 0>>

\* { ...mapping, ...updates }[f]
Spread(mapping, updates, f) == IF f \in DOMAIN updates THEN updates[f] ELSE mapping[f]

\* the Map<string, string[]> built by one forEach of validateMappings: a
\* sequence of [key, ids] in the order in which the keys were first set
\* fieldCounts without the test of the status
RECURSIVE fieldCounts_AnyStatus(_, _)
fieldCounts_AnyStatus(mappings, keyField) ==
  IF mappings = <<>> THEN <<>>
  ELSE LET counts == fieldCounts_AnyStatus(SubSeq(mappings, 1, Len(mappings) - 1), keyField)
           mapping == mappings[Len(mappings)]
           key == mapping[keyField]
       IN IF \E i \in 1..Len(counts) : counts[i].key = key
          THEN [i \in 1..Len(counts) |->
                  IF counts[i].key = key
                  THEN [key |-> key, ids |-> Append(counts[i].ids, mapping.id)]
                  ELSE counts[i]]
          ELSE Append(counts, [key |-> key, ids |-> <<mapping.id>>])

\* fieldCounts putting the new id in front: [mapping.id, ...existing]
RECURSIVE fieldCounts_Prepend(_, _)
fieldCounts_Prepend(mappings, keyField) ==
  IF mappings = <<>> THEN <<>>
  ELSE LET counts == fieldCounts_Prepend(SubSeq(mappings, 1, Len(mappings) - 1), keyField)
           mapping == mappings[Len(mappings)]
           key == mapping[keyField]
       IN IF mapping.status # "active" THEN counts
          ELSE IF \E i \in 1..Len(counts) : counts[i].key = key
               THEN [i \in 1..Len(counts) |->
                       IF counts[i].key = key
                       THEN [key |-> key, ids |-> <<mapping.id>> \o counts[i].ids]
                       ELSE counts[i]]
               ELSE Append(counts, [key |-> key, ids |-> <<mapping.id>>])

RECURSIVE fieldCounts(_, _)
fieldCounts(mappings, keyField) ==
  IF mappings = <<>> THEN <<>>
  ELSE LET counts == fieldCounts(SubSeq(mappings, 1, Len(mappings) - 1), keyField)
           mapping == mappings[Len(mappings)]
           key == mapping[keyField]
       IN IF mapping.status # "active" THEN counts
          ELSE IF \E i \in 1..Len(counts) : counts[i].key = key
               THEN [i \in 1..Len(counts) |->
                       IF counts[i].key = key
                       THEN [key |-> key, ids |-> Append(counts[i].ids, mapping.id)]
                       ELSE counts[i]]
               ELSE Append(counts, [key |-> key, ids |-> <<mapping.id>>])

\* the conflicts.push of one Map.forEach of validateMappings
RECURSIVE conflictsOf(_, _)
conflictsOf(counts, type) ==
  IF counts = <<>> THEN <<>>
  ELSE LET rest == conflictsOf(SubSeq(counts, 1, Len(counts) - 1), type)
           entry == counts[Len(counts)]
       IN IF Len(entry.ids) > 1
          THEN Append(rest, [id |-> <<"conflict", type, entry.key>>,
                             type |-> type,
                             affected_mappings |-> entry.ids])
          ELSE rest

\* the conflict list validateMappings computes for a mapping collection
computeConflicts(mappings) ==
  conflictsOf(fieldCounts(mappings, "source_field"), "duplicate_source")
  \o conflictsOf(fieldCounts(mappings, "target_field"), "duplicate_target")

validateMappings(st) == [st EXCEPT !.conflicts = computeConflicts(st.mappings)]

setDocumentMappings(st, documentId, initialMappings) ==
  LET dynamicMappings ==
        [index \in 1..Len(initialMappings) |->
           [id |-> DocMappingId(documentId, index - 1),
            source_field |-> initialMappings[index].source_field,
            target_field |-> initialMappings[index].target_field,
            transformation_type |-> initialMappings[index].transformation_type,
            confidence |-> initialMappings[index].confidence,
            status |-> "active",
            user_modified |-> FALSE]]
  IN validateMappings([st EXCEPT !.documentId = documentId,
                                 !.mappings = IF initialMappings = <<>> THEN <<>>
                                              ELSE dynamicMappings,
                                 !.conflicts = <<>>])

updateOne(mapping, updates) ==
  [id |-> mapping.id,
   source_field |-> Spread(mapping, updates, "source_field"),
   target_field |-> Spread(mapping, updates, "target_field"),
   transformation_type |-> Spread(mapping, updates, "transformation_type"),
   confidence |-> Spread(mapping, updates, "confidence"),
   status |-> Spread(mapping, updates, "status"),
   user_modified |-> TRUE]

\* updateMapping without the call of validateMappings
updateMapping_NoValidate(st, id, updates) ==
  [st EXCEPT !.mappings = [i \in 1..Len(st.mappings) |->
                             IF st.mappings[i].id = id
                             THEN updateOne(st.mappings[i], updates)
                             ELSE st.mappings[i]]]

updateMapping(st, id, updates) ==
  validateMappings(
    [st EXCEPT !.mappings = [i \in 1..Len(st.mappings) |->
                               IF st.mappings[i].id = id
                               THEN updateOne(st.mappings[i], updates)
                               ELSE st.mappings[i]]])

\* the id addMapping returns
addedId(st) == GenMappingId(st.idCounter)

\* addMapping without the validation after the set
addMapping_NoValidate(st, mapping) ==
  [st EXCEPT !.mappings = Append(st.mappings,
                                 [id |-> addedId(st),
                                  source_field |-> mapping.source_field,
                                  target_field |-> mapping.target_field,
                                  transformation_type |-> mapping.transformation_type,
                                  confidence |-> mapping.confidence,
                                  status |-> mapping.status,
                                  user_modified |-> mapping.user_modified]),
             !.idCounter = st.idCounter + 1]

addMapping(st, mapping) ==
  LET newMapping == [id |-> addedId(st),
                     source_field |-> mapping.source_field,
                     target_field |-> mapping.target_field,
                     transformation_type |-> mapping.transformation_type,
                     confidence |-> mapping.confidence,
                     status |-> mapping.status,
                     user_modified |-> mapping.user_modified]
  IN validateMappings([st EXCEPT !.mappings = Append(st.mappings, newMapping),
                                 !.idCounter = st.idCounter + 1])

isAffected(conflict, id) ==
  \E i \in 1..Len(conflict.affected_mappings) : conflict.affected_mappings[i] = id

\* removeMapping leaving the conflicts as they are
removeMapping_KeepConflicts(st, id) ==
  LET keepMapping(mapping) == mapping.id # id
  IN [st EXCEPT !.mappings = SelectSeq(st.mappings, keepMapping)]

removeMapping(st, id) ==
  LET keepMapping(mapping) == mapping.id # id
      keepConflict(conflict) == ~isAffected(conflict, id)
  IN [st EXCEPT !.mappings = SelectSeq(st.mappings, keepMapping),
                !.conflicts = SelectSeq(st.conflicts, keepConflict)]

\* data: a record of the fields to merge, or NoData
NoData == [none |-> TRUE]

\* resolveOne leaving the mapping as it is
resolveOne_Untouched(mapping, resolution, data) == mapping

resolveOne(mapping, resolution, data) ==
  CASE resolution = "accept" -> [mapping EXCEPT !.status = "active"]
    [] resolution = "reject" -> [mapping EXCEPT !.status = "disabled"]
    [] resolution = "modify" /\ data # NoData ->
         [id |-> Spread(mapping, data, "id"),
          source_field |-> Spread(mapping, data, "source_field"),
          target_field |-> Spread(mapping, data, "target_field"),
          transformation_type |-> Spread(mapping, data, "transformation_type"),
          confidence |-> Spread(mapping, data, "confidence"),
          status |-> "active",
          user_modified |-> Spread(mapping, data, "user_modified")]
    [] OTHER -> mapping

resolveConflict(st, conflictId, resolution, data) ==
  LET found == {i \in 1..Len(st.conflicts) : st.conflicts[i].id = conflictId}
  IN IF found = {} THEN st
     ELSE LET conflict == st.conflicts[CHOOSE i \in found : \A j \in found : i <= j]
              keepConflict(c) == c.id # conflictId
          IN [st EXCEPT !.mappings = [i \in 1..Len(st.mappings) |->
                                        IF isAffected(conflict, st.mappings[i].id)
                                        THEN resolveOne(st.mappings[i], resolution, data)
                                        ELSE st.mappings[i]],
                        !.conflicts = SelectSeq(st.conflicts, keepConflict)]

clearMappings(st) ==
  [st EXCEPT !.mappings = <<>>, !.conflicts = <<>>, !.documentId = NoDocument]

isActive(mapping) == mapping.status = "active"

\* exportMappings without the filter
exportMappings_All(st) == st.mappings

exportMappings(st) == SelectSeq(st.mappings, isActive)

\* ------------------------------------------------------------------------
\* AIMappingProcessor: the functions that run inside one call stack.  Each
\* takes the store and returns [st, result]; a result is
\* [success, message, appliedChanges, needsClarification] with the message
\* reduced to a tag; a change is [type, mappingId, sourceField, targetField].
\* ------------------------------------------------------------------------

\* similarity scores and confidences written in the processor, in 1/10000
SIM_EXACT      == 10000
SIM_CONTAINS   == 8000
SIM_COMMONWORD == 6000
SIM_NONE       == 0
CREATE_CONFIDENCE == 8500
\* thresholds of processInstruction, extractMultipleCommands, handleBulkMapping
DIRECT_THRESHOLD == 6000
MULTI_THRESHOLD  == 5000
MATCH_THRESHOLD  == 6000
maxMappings == 5

commonWords == << <<"i","d">>, <<"n","a","m","e">>, <<"e","m","a","i","l">>,
                  <<"p","h","o","n","e">>, <<"a","d","d","r","e","s","s">>,
                  <<"d","a","t","e">>, <<"t","i","m","e">>, <<"u","s","e","r">>,
                  <<"c","u","s","t","o","m","e","r">>, <<"o","r","d","e","r">> >>

calculateFieldSimilarity(field1, field2) ==
  LET f1 == stripSeparators(toLowerCase(field1))
      f2 == stripSeparators(toLowerCase(field2))
  IN IF f1 = f2 THEN SIM_EXACT
     ELSE IF includes(f1, f2) \/ includes(f2, f1) THEN SIM_CONTAINS
     ELSE IF \E w \in DOMAIN commonWords :
               includes(f1, commonWords[w]) /\ includes(f2, commonWords[w])
          THEN SIM_COMMONWORD
     ELSE SIM_NONE

\* the forEach of findBestFieldMatch over targetFields[1..n]
RECURSIVE bestOver(_, _, _)
bestOver(sourceField, targetFields, n) ==
  IF n = 0
  THEN [field |-> IF targetFields = <<>> THEN Absent ELSE targetFields[1], score |-> 0]
  ELSE LET best == bestOver(sourceField, targetFields, n - 1)
           score == calculateFieldSimilarity(sourceField, targetFields[n])
       IN IF score > best.score THEN [field |-> targetFields[n], score |-> score] ELSE best

\* findBestFieldMatch keeping the last of the targets with the highest score
findBestFieldMatch_LastWins(sourceField, targetFields) ==
  LET score(k) == calculateFieldSimilarity(sourceField, targetFields[k])
      top == {k \in 1..Len(targetFields) :
                /\ score(k) > 0
                /\ \A j \in 1..Len(targetFields) : score(j) <= score(k)}
  IN IF top = {} THEN bestOver(sourceField, targetFields, 0)
     ELSE LET k == CHOOSE i \in top : \A j \in top : j <= i
          IN [field |-> targetFields[k], score |-> score(k)]

findBestFieldMatch(sourceField, targetFields) ==
  bestOver(sourceField, targetFields, Len(targetFields))

extractFieldMentions(instruction, sourceFields, targetFields) ==
  LET mentioned(field) == includes(toLowerCase(instruction), toLowerCase(field))
  IN [source |-> SelectSeq(sourceFields, mentioned),
      target |-> SelectSeq(targetFields, mentioned)]

Change(type, mappingId, sourceField, targetField) ==
  [type |-> type, mappingId |-> mappingId, sourceField |-> sourceField,
   targetField |-> targetField]

Result(success, message, appliedChanges) ==
  [success |-> success, message |-> message, appliedChanges |-> appliedChanges,
   needsClarification |-> FALSE]

Clarify(message) ==
  [success |-> FALSE, message |-> message, appliedChanges |-> <<>>,
   needsClarification |-> TRUE]

\* a find that never finds
findActive_None(currentMappings, sourceField) == <<>>

\* currentMappings.find((m) => m.source_field === sourceField && m.status === "active")
\* as a sequence of zero or one mappings
findActive(currentMappings, sourceField) ==
  LET hits == {i \in 1..Len(currentMappings) :
                 /\ currentMappings[i].source_field = sourceField
                 /\ currentMappings[i].status = "active"}
  IN IF hits = {} THEN <<>>
     ELSE <<currentMappings[CHOOSE i \in hits : \A j \in hits : i <= j]>>

\* a fall-through of executeCommand that reports success
CouldNotExecute_Succeeds(st) == [st |-> st, result |-> Result(TRUE, "could_not_execute", <<>>)]

CouldNotExecute(st) == [st |-> st, result |-> Result(FALSE, "could_not_execute", <<>>)]

executeCommand(command, currentMappings, st) ==
  LET existing == findActive(currentMappings, command.sourceField)
  IN
  CASE command.type = "create" ->
         IF command.sourceField # Absent /\ command.targetField # Absent
         THEN IF existing # <<>>
              THEN [st |-> updateMapping(st, existing[1].id,
                                         [target_field |-> command.targetField]),
                    result |-> Result(TRUE, "updated",
                                 <<Change("updated", existing[1].id, command.sourceField,
                                          command.targetField)>>)]
              ELSE [st |-> addMapping(st, [source_field |-> command.sourceField,
                                           target_field |-> command.targetField,
                                           transformation_type |-> "direct_mapping",
                                           confidence |-> CREATE_CONFIDENCE,
                                           status |-> "active",
                                           user_modified |-> TRUE]),
                    result |-> Result(TRUE, "created",
                                 <<Change("created", addedId(st), command.sourceField,
                                          command.targetField)>>)]
         ELSE CouldNotExecute(st)
    [] command.type = "delete" ->
         IF command.sourceField # Absent
         THEN IF existing # <<>>
              THEN [st |-> removeMapping(st, existing[1].id),
                    result |-> Result(TRUE, "deleted",
                                 <<Change("deleted", existing[1].id, command.sourceField,
                                          existing[1].target_field)>>)]
              ELSE [st |-> st, result |-> Result(FALSE, "no_mapping_found", <<>>)]
         ELSE CouldNotExecute(st)
    [] command.type = "modify_transformation" ->
         IF command.sourceField # Absent /\ command.transformationType # Absent
            /\ existing # <<>>
         THEN [st |-> updateMapping(st, existing[1].id,
                                    [transformation_type |-> command.transformationType]),
               result |-> Result(TRUE, "transformation_updated",
                            <<Change("modified", existing[1].id, command.sourceField,
                                     existing[1].target_field)>>)]
         ELSE CouldNotExecute(st)
    [] command.type = "set_confidence" ->
         IF command.sourceField # Absent /\ command.confidence # Absent /\ existing # <<>>
         THEN [st |-> updateMapping(st, existing[1].id,
                                    [confidence |-> command.confidence[1]]),
               result |-> Result(TRUE, "confidence_set",
                            <<Change("modified", existing[1].id, command.sourceField,
                                     existing[1].target_field)>>)]
         ELSE CouldNotExecute(st)
    [] OTHER -> CouldNotExecute(st)

\* instruction.split(/(?:,|\sand\s|\sthen\s|\salso\s)/i)
separators == << <<",">>, <<" ","a","n","d"," ">>, <<" ","t","h","e","n"," ">>,
                 <<" ","a","l","s","o"," ">> >>

\* length of the separator matching at pos (0: none); \s is any space character
separatorAt(s, pos) ==
  LET low == toLowerCase(s)
      matches(sep) ==
        /\ pos + Len(sep) - 1 <= Len(s)
        /\ \A i \in 1..Len(sep) :
             IF sep[i] = " " THEN low[pos + i - 1] \in SpaceChars
             ELSE low[pos + i - 1] = sep[i]
      hits == {k \in DOMAIN separators : matches(separators[k])}
  IN IF hits = {} THEN 0
     ELSE Len(separators[CHOOSE k \in hits : \A j \in hits : k <= j])

RECURSIVE splitFrom(_, _, _)
splitFrom(s, start, pos) ==
  IF pos > Len(s) THEN <<SubSeq(s, start, Len(s))>>
  ELSE LET n == separatorAt(s, pos)
       IN IF n > 0 THEN <<SubSeq(s, start, pos - 1)>> \o splitFrom(s, pos + n, pos + n)
          ELSE splitFrom(s, start, pos + 1)

split(s) == splitFrom(s, 1, 1)

RECURSIVE commandsOfParts(_, _)
commandsOfParts(parts, fields) ==
  IF parts = <<>> THEN <<>>
  ELSE LET parseResult == parseCommand(trim(Head(parts)), fields)
           rest == commandsOfParts(Tail(parts), fields)
       IN IF parseResult.command # NullCommand /\ parseResult.confidence > MULTI_THRESHOLD
          THEN <<parseResult.command>> \o rest
          ELSE rest

extractMultipleCommands(instruction, context) ==
  commandsOfParts(split(instruction),
                  [source |-> context.sourceFields, target |-> context.targetFields])

\* the loop of handleBulkMapping over fields[1..n]
RECURSIVE bulkMapOver(_, _, _, _)
bulkMapOver(fields, n, targetFields, st) ==
  IF n = 0 THEN [st |-> st, changes |-> <<>>]
  ELSE LET before == bulkMapOver(fields, n - 1, targetFields, st)
           sourceField == fields[n]
           bestMatch == findBestFieldMatch(sourceField, targetFields)
       IN IF bestMatch.score > MATCH_THRESHOLD
          THEN [st |-> addMapping(before.st, [source_field |-> sourceField,
                                              target_field |-> bestMatch.field,
                                              transformation_type |-> "direct_mapping",
                                              confidence |-> bestMatch.score,
                                              status |-> "active",
                                              user_modified |-> TRUE]),
                changes |-> Append(before.changes,
                                   Change("created", addedId(before.st), sourceField,
                                          bestMatch.field))]
          ELSE before

handleBulkMapping(instruction, context, st) ==
  LET n == IF Len(context.sourceFields) < maxMappings THEN Len(context.sourceFields)
           ELSE maxMappings
      done == bulkMapOver(context.sourceFields, n, context.targetFields, st)
  IN [st |-> done.st,
      result |-> Result(Len(done.changes) > 0, "bulk_created", done.changes)]

\* a similar-field heuristic that removes the active mappings
handleSimilarFieldMapping_Removes(instruction, context, st) ==
  [st |-> [st EXCEPT !.mappings = SelectSeq(st.mappings, LAMBDA m : m.status # "active")],
   result |-> Clarify("found_similar_fields")]

handleSimilarFieldMapping(instruction, context, st) ==
  LET mentionedFields == extractFieldMentions(instruction, context.sourceFields,
                                              context.targetFields)
      referenceField == mentionedFields.source[1]
      similar(field) == /\ calculateFieldSimilarity(referenceField, field) > MATCH_THRESHOLD
                        /\ field # referenceField
  IN [st |-> st,
      result |-> IF mentionedFields.source = <<>>
                 THEN Result(FALSE, "specify_field", <<>>)
                 ELSE IF SelectSeq(context.sourceFields, similar) = <<>>
                      THEN Result(FALSE, "no_similar_fields", <<>>)
                      ELSE Clarify("found_similar_fields")]

\* the loop of handleBulkRemoval over mappingsToRemove[1..n]
RECURSIVE bulkRemoveOver(_, _, _)
bulkRemoveOver(mappingsToRemove, n, st) ==
  IF n = 0 THEN [st |-> st, changes |-> <<>>]
  ELSE LET before == bulkRemoveOver(mappingsToRemove, n - 1, st)
           mapping == mappingsToRemove[n]
       IN [st |-> removeMapping(before.st, mapping.id),
           changes |-> Append(before.changes,
                              Change("deleted", mapping.id, mapping.source_field,
                                     mapping.target_field))]

handleBulkRemoval(instruction, context, st) ==
  LET mappingsToRemove == SelectSeq(context.currentMappings, isActive)
      done == bulkRemoveOver(mappingsToRemove, Len(mappingsToRemove), st)
  IN [st |-> done.st,
      result |-> Result(Len(done.changes) > 0, "bulk_removed", done.changes)]

S_all     == <<"a", "l", "l">>
S_similar == <<"s", "i", "m", "i", "l", "a", "r">>
S_like    == <<"l", "i", "k", "e">>
S_clear   == <<"c", "l", "e", "a", "r">>

contextualInterpretation(instruction, context, st) ==
  LET lowerInstruction == toLowerCase(instruction)
      mentionedFields == extractFieldMentions(instruction, context.sourceFields,
                                              context.targetFields)
  IN IF includes(lowerInstruction, S_all) /\ includes(lowerInstruction, S_map)
     THEN handleBulkMapping(instruction, context, st)
     ELSE IF includes(lowerInstruction, S_similar) \/ includes(lowerInstruction, S_like)
     THEN handleSimilarFieldMapping(instruction, context, st)
     ELSE IF includes(lowerInstruction, S_remove) \/ includes(lowerInstruction, S_clear)
     THEN handleBulkRemoval(instruction, context, st)
     ELSE IF mentionedFields.source # <<>> /\ mentionedFields.target # <<>>
     THEN [st |-> st, result |-> Clarify("need_clarification")]
     ELSE [st |-> st, result |-> Result(FALSE, "not_understood", <<>>)]

\* ------------------------------------------------------------------------
\* State
\* ------------------------------------------------------------------------

VARIABLES
  mappings,         \* useMappingStore: mappings
  conflicts,        \* useMappingStore: conflicts
  documentId,       \* useMappingStore: documentId
  idCounter,        \* how many ids addMapping has drawn
  processingQueue,  \* AIMappingProcessor.processingQueue
  isProcessing,     \* AIMappingProcessor.isProcessing
  inflight,         \* the calls of processUserInstruction suspended at an await
  timers,           \* the pending setTimeout callbacks, oldest first
  submitted,        \* how many instructions the callers have submitted
  ops,              \* how many store operations the callers have made directly
  lastOp,           \* the operation performed by the last step
  lastResult,       \* the result the last returning call of processUserInstruction gave
  log,              \* the instructions processed to completion, in order
  waiting,          \* the submissions rejected with "please wait" and not processed since,
                    \* each with the context it was made with
  memo,             \* parseCommand and extractMultipleCommands of each instruction text,
                    \* evaluated once: both are pure in the text and the field lists
  parsed,           \* a text handed to parseCommand, with what parseCommand returned
  scored,           \* two field names handed to calculateFieldSimilarity, with the score
  written           \* what the callers wrote into each record, in insertion order

storeVars == <<mappings, conflicts, documentId, idCounter>>
procVars  == <<processingQueue, isProcessing, inflight, timers, submitted, lastResult, log,
               waiting, parsed, memo, scored>>
vars == <<mappings, conflicts, documentId, idCounter, processingQueue, isProcessing,
          inflight, timers, submitted, ops, lastOp, lastResult, log, waiting, parsed, memo,
          scored, written>>

\* the store as one value, and the step that replaces it
Store == [mappings |-> mappings, conflicts |-> conflicts, documentId |-> documentId,
          idCounter |-> idCounter]

SetStore(st) ==
  /\ mappings' = st.mappings
  /\ conflicts' = st.conflicts
  /\ documentId' = st.documentId
  /\ idCounter' = st.idCounter

\* ------------------------------------------------------------------------
\* Bounds and input domains
\* ------------------------------------------------------------------------

MaxMappings == 3   \* records in the collection (store specifications)
MaxOps      == 4   \* store operations called directly (store specifications)
MaxSubmits  == 3   \* instructions submitted by callers (processor specifications)
MaxLog      == 6   \* completed calls the log keeps: the first MaxLog of them
MaxQueue    == 4   \* entries of the queue after which a failing call does not push an
                   \* instruction the queue holds already

F_id            == <<"i", "d">>
F_name          == <<"n", "a", "m", "e">>
F_email         == <<"e", "m", "a", "i", "l">>
F_user_id       == <<"u", "s", "e", "r", "_", "i", "d">>
F_full_name     == <<"f", "u", "l", "l", "_", "n", "a", "m", "e">>
F_email_address == <<"e", "m", "a", "i", "l", "_", "a", "d", "d", "r", "e", "s", "s">>

\* the vocabularies the callers supply
SourceFields == <<F_id, F_name, F_email>>
TargetFields == <<F_user_id, F_full_name, F_email_address>>

Documents == {1}

Suggestion(source, target) ==
  [source_field |-> source, target_field |-> target,
   transformation_type |-> "direct_mapping", confidence |-> SIM_CONTAINS]

\* the suggestion lists a document analysis hands to setDocumentMappings
SuggestionLists ==
  { <<>>,
    <<Suggestion(F_id, F_user_id)>>,
    <<Suggestion(F_id, F_user_id), Suggestion(F_name, F_user_id)>>,
    <<Suggestion(F_id, F_user_id), Suggestion(F_id, F_user_id)>>,
    <<Suggestion(F_name, F_full_name), Suggestion(F_id, F_user_id),
      Suggestion(F_name, F_user_id)>> }

\* the records callers hand to addMapping
NewMapping(source, target, status) ==
  [source_field |-> source, target_field |-> target,
   transformation_type |-> "direct_mapping", confidence |-> CREATE_CONFIDENCE,
   status |-> status, user_modified |-> TRUE]

NewMappings ==
  { NewMapping(F_id, F_user_id, "active"), NewMapping(F_id, F_full_name, "active"),
    NewMapping(F_name, F_user_id, "active"), NewMapping(F_name, F_user_id, "pending") }

\* the partial records callers hand to updateMapping
Updates ==
  { [target_field |-> F_full_name],
    [source_field |-> F_id],
    [status |-> "disabled"],
    [confidence |-> SIM_COMMONWORD, transformation_type |-> "value_normalization"] }

\* the data callers hand to resolveConflict
ResolveData == { NoData, [target_field |-> F_full_name] }

Resolutions == {"accept", "reject", "modify"}

MappingIds == {mappings[i].id : i \in 1..Len(mappings)}
ConflictIds == {conflicts[i].id : i \in 1..Len(conflicts)}

\* an id of no record, and an id of no conflict
UnknownMappingId == <<"mapping-none", 0, 0>>
UnknownConflictId == <<"conflict", "none", <<>>>>

\* ------------------------------------------------------------------------
\* Initial state: the store and the processor as constructed
\* ------------------------------------------------------------------------

\* the operation a step performs, with the instruction it is about (if any)
Op(op, instruction) == [op |-> op, instruction |-> instruction]

NoResult == [instruction |-> <<>>, result |-> Result(FALSE, "none", <<>>)]

\* no text handed to parseCommand
NoParse == [input |-> [text |-> <<>>, source |-> Absent, target |-> Absent], result |-> <<>>]

\* no field names handed to calculateFieldSimilarity
NoScore == [field1 |-> <<>>, field2 |-> <<>>, score |-> <<>>]

\* the store and the processor as constructed
Constructed ==
  /\ mappings = <<>>
  /\ conflicts = <<>>
  /\ documentId = NoDocument
  /\ idCounter = 0
  /\ processingQueue = <<>>
  /\ isProcessing = FALSE
  /\ inflight = <<>>
  /\ timers = <<>>
  /\ submitted = 0
  /\ ops = 0
  /\ lastOp = Op("init", <<>>)
  /\ lastResult = NoResult
  /\ log = <<>>
  /\ waiting = {}
  /\ written = <<>>

\* the store specifications parse no instruction
Init == Constructed /\ parsed = NoParse /\ memo = <<>> /\ scored = NoScore

\* ------------------------------------------------------------------------
\* Store operations called directly (by the mapping UI)
\* ------------------------------------------------------------------------

\* one more direct call of a store operation, named op
StoreCall(op) ==
  /\ ops < MaxOps
  /\ ops' = ops + 1
  /\ lastOp' = Op(op, <<>>)

\* what a caller wrote: the fields it supplies to the store
Written(id, m) ==
  [id |-> id, source_field |-> m.source_field, target_field |-> m.target_field,
   transformation_type |-> m.transformation_type, confidence |-> m.confidence,
   status |-> m.status]

SetDocumentMappings(d, suggestions) ==
  /\ SetStore(setDocumentMappings(Store, d, suggestions))
  /\ StoreCall("setDocumentMappings")
  /\ written' = [i \in 1..Len(suggestions) |->
                   [id |-> DocMappingId(d, i - 1),
                    source_field |-> suggestions[i].source_field,
                    target_field |-> suggestions[i].target_field,
                    transformation_type |-> suggestions[i].transformation_type,
                    confidence |-> suggestions[i].confidence,
                    status |-> "active"]]
  /\ UNCHANGED procVars

AddMapping(m) ==
  /\ Len(mappings) < MaxMappings
  /\ SetStore(addMapping(Store, m))
  /\ StoreCall("addMapping")
  /\ written' = Append(written, Written(addedId(Store), m))
  /\ UNCHANGED procVars

UpdateMapping(id, u) ==
  /\ SetStore(updateMapping(Store, id, u))
  /\ StoreCall("updateMapping")
  /\ written' = [i \in 1..Len(written) |->
                   IF written[i].id = id
                   THEN [f \in DOMAIN written[i] |->
                           IF f \in DOMAIN u THEN u[f] ELSE written[i][f]]
                   ELSE written[i]]
  /\ UNCHANGED procVars

RemoveMapping(id) ==
  /\ SetStore(removeMapping(Store, id))
  /\ StoreCall("removeMapping")
  /\ written' = SelectSeq(written, LAMBDA w : w.id # id)
  /\ UNCHANGED procVars

ResolveConflict(cid, resolution, data) ==
  /\ SetStore(resolveConflict(Store, cid, resolution, data))
  /\ StoreCall("resolveConflict")
  /\ UNCHANGED <<procVars, written>>

ValidateMappings ==
  /\ SetStore(validateMappings(Store))
  /\ StoreCall("validateMappings")
  /\ UNCHANGED <<procVars, written>>

ClearMappings ==
  /\ SetStore(clearMappings(Store))
  /\ StoreCall("clearMappings")
  /\ written' = <<>>
  /\ UNCHANGED procVars

DoSetDocumentMappings == \E d \in Documents, s \in SuggestionLists : SetDocumentMappings(d, s)
DoAddMapping == \E m \in NewMappings : AddMapping(m)
DoUpdateMapping == \E id \in MappingIds \cup {UnknownMappingId}, u \in Updates : UpdateMapping(id, u)
DoRemoveMapping == \E id \in MappingIds \cup {UnknownMappingId} : RemoveMapping(id)
DoResolveConflict ==
  \E cid \in ConflictIds \cup {UnknownConflictId}, r \in Resolutions, data \in ResolveData :
    ResolveConflict(cid, r, data)

NextStore ==
  \/ DoSetDocumentMappings
  \/ DoAddMapping
  \/ DoUpdateMapping
  \/ DoRemoveMapping
  \/ DoResolveConflict
  \/ ValidateMappings
  \/ ClearMappings

\* every store operation, in any order
SpecStore == Init /\ [][NextStore]_vars

NextCrud == DoAddMapping \/ DoUpdateMapping \/ DoRemoveMapping

\* addMapping, updateMapping and removeMapping only
SpecCrud == Init /\ [][NextCrud]_vars

\* ------------------------------------------------------------------------
\* The instruction processor.  processUserInstruction runs synchronously up
\* to its first await; what follows an await runs as a later step.  Store
\* mutations happen inside the call stack of the step that executes a command.
\* ------------------------------------------------------------------------

\* "Map id to user_id"
I_MapIdToUserId == <<"M", "a", "p", " ", "i", "d", " ", "t", "o", " ",
                     "u", "s", "e", "r", "_", "i", "d">>
\* "Map id to full_name"
I_MapIdToFullName == <<"M", "a", "p", " ", "i", "d", " ", "t", "o", " ",
                       "f", "u", "l", "l", "_", "n", "a", "m", "e">>
\* "Delete mapping for id"
I_DeleteMappingForId == <<"D", "e", "l", "e", "t", "e", " ", "m", "a", "p", "p", "i", "n", "g",
                          " ", "f", "o", "r", " ", "i", "d">>
\* "Delete all mappings"
I_DeleteAllMappings == <<"D", "e", "l", "e", "t", "e", " ", "a", "l", "l", " ",
                         "m", "a", "p", "p", "i", "n", "g", "s">>
\* "clear"
I_Clear == <<"c", "l", "e", "a", "r">>
\* "Map name to full_name, map email to email_address"
I_MapNameAndEmail == <<"M", "a", "p", " ", "n", "a", "m", "e", " ", "t", "o", " ",
                       "f", "u", "l", "l", "_", "n", "a", "m", "e", ",", " ",
                       "m", "a", "p", " ", "e", "m", "a", "i", "l", " ", "t", "o", " ",
                       "e", "m", "a", "i", "l", "_", "a", "d", "d", "r", "e", "s", "s">>

\* "Map id to user_id, map id to full_name"
I_MapIdTwice == <<"M", "a", "p", " ", "i", "d", " ", "t", "o", " ",
                  "u", "s", "e", "r", "_", "i", "d", ",", " ",
                  "m", "a", "p", " ", "i", "d", " ", "t", "o", " ",
                  "f", "u", "l", "l", "_", "n", "a", "m", "e">>

\* the instructions callers submit
Instructions == {I_MapIdToUserId, I_MapIdToFullName, I_DeleteMappingForId,
                 I_DeleteAllMappings, I_Clear, I_MapNameAndEmail, I_MapIdTwice}

\* "Set transformation for id to uppercase"
I_SetTransformation == <<"S", "e", "t", " ", "t", "r", "a", "n", "s", "f", "o", "r", "m", "a",
                         "t", "i", "o", "n", " ", "f", "o", "r", " ", "i", "d", " ",
                         "t", "o", " ", "u", "p", "p", "e", "r", "c", "a", "s", "e">>

\* "Set confidence for id to 150"
I_SetConfidence150 == <<"S", "e", "t", " ", "c", "o", "n", "f", "i", "d", "e", "n", "c", "e",
                        " ", "f", "o", "r", " ", "i", "d", " ", "t", "o", " ", "1", "5", "0">>

\* "Set confidence for id to 50"
I_SetConfidence50 == <<"S", "e", "t", " ", "c", "o", "n", "f", "i", "d", "e", "n", "c", "e",
                       " ", "f", "o", "r", " ", "i", "d", " ", "t", "o", " ", "5", "0">>

\* "Map name to user_id"
I_MapNameToUserId == <<"M", "a", "p", " ", "n", "a", "m", "e", " ", "t", "o", " ",
                       "u", "s", "e", "r", "_", "i", "d">>

\* the instructions a caller submits that awaits each call before the next
SeqInstructions ==
  Instructions \cup {I_SetTransformation, I_SetConfidence150, I_SetConfidence50,
                     I_MapNameToUserId}

\* the context a caller passes: its vocabularies and the store's mappings as
\* it reads them when it submits
Context(currentMappings) ==
  [sourceFields |-> SourceFields, targetFields |-> TargetFields,
   currentMappings |-> currentMappings]

PleaseWait == Result(FALSE, "please_wait", <<>>)

\* what the caller gets when the promise of a call rejects: no result
Exception == [thrown |-> "error"]

\* the result of the catch clause of executeCommand
ErrorExecuting == Result(FALSE, "error_executing", <<>>)

\* enterCall without the test of the flag
enterCall_NeverBusy(instruction, queue, flag) ==
  [queue |-> Append(queue, instruction), rejected |-> FALSE]

\* enterCall without the push
enterCall_NoPush(instruction, queue, flag) ==
  [queue |-> queue, rejected |-> flag]

\* processUserInstruction up to the test of the flag: the queue after the
\* push, and whether the call returns the "please wait" result
enterCall(instruction, queue, flag) ==
  [queue |-> Append(queue, instruction), rejected |-> flag]

\* a call suspended at an await of processInstruction: the store after the
\* commands run so far, and what the call resumes with
suspended(instruction, context, st, out, pending, multi) ==
  [st |-> out.st,
   call |-> [instruction |-> instruction, context |-> context,
             pending |-> pending, results |-> <<out.result>>, multi |-> multi,
             before |-> st.mappings]]

\* processInstruction once parseCommand and extractMultipleCommands have
\* returned, up to its first await: the parsed command is executed when its
\* confidence passes the threshold, else the first of the extracted commands,
\* else the instruction is interpreted from its context
processParsed(direct, parseResult, commands, instruction, context, st) ==
  IF direct \/ Len(commands) > 0
  THEN suspended(instruction, context, st,
                 executeCommand(IF direct THEN parseResult.command ELSE commands[1],
                                context.currentMappings, st),
                 IF direct THEN <<>> ELSE Tail(commands), ~direct)
  ELSE suspended(instruction, context, st,
                 contextualInterpretation(instruction, context, st), <<>>, FALSE)

\* the test of processInstruction with >= for >
isDirect_Inclusive(parseResult) ==
  parseResult.command # NullCommand /\ parseResult.confidence >= DIRECT_THRESHOLD

\* the test of processInstruction on the result of parseCommand
isDirect(parseResult) ==
  parseResult.command # NullCommand /\ parseResult.confidence > DIRECT_THRESHOLD

\* the call with the result of parseCommand
processWith(parseResult, commands, instruction, context, st) ==
  processParsed(isDirect(parseResult), parseResult, commands, instruction, context, st)

\* parseCommand and extractMultipleCommands read the instruction and the
\* vocabularies only, and the vocabularies never change: what they return for
\* each instruction is computed once, when the processor starts, and read from memo
Vocabulary == [source |-> SourceFields, target |-> TargetFields]
parsedInstructions == memo.parseCommand
multipleCommands == memo.extractMultipleCommands

\* the store and the processor as constructed, before any instruction
InitProc ==
  /\ Constructed
  /\ parsed = NoParse
  /\ scored = NoScore
  /\ memo = [parseCommand |-> [i \in SeqInstructions |-> parseCommand(i, Vocabulary)],
             extractMultipleCommands |->
               [i \in SeqInstructions |->
                  extractMultipleCommands(i, [sourceFields |-> SourceFields,
                                              targetFields |-> TargetFields])]]

\* processInstruction up to its first await
startProcessing(instruction, context, st) ==
  processWith(parsedInstructions[instruction], multipleCommands[instruction],
              instruction, context, st)

\* whether the instruction is run by executeCommand, whose body is one try
\* block, and not by contextualInterpretation, which has none
underTry(instruction) ==
  isDirect(parsedInstructions[instruction]) \/ multipleCommands[instruction] # <<>>

\* processInstruction up to its first await when every call of the store
\* throws before it changes anything: started is what the call does when the
\* store works; a call that reaches no store call is not affected
failingProcessing(started, caught, instruction, context, st) ==
  IF started.call.results[1].appliedChanges = <<>> THEN started
  ELSE suspended(instruction, context, st,
                 [st |-> st, result |-> IF caught THEN ErrorExecuting ELSE Exception],
                 started.call.pending, started.call.multi)

RECURSIVE allChanges(_)
allChanges(results) ==
  IF results = <<>> THEN <<>>
  ELSE Head(results).appliedChanges \o allChanges(Tail(results))

\* the result processInstruction resolves to
finalResult(call) ==
  IF call.multi
  THEN Result(\E i \in 1..Len(call.results) : call.results[i].success,
              "applied_changes", allChanges(call.results))
  ELSE call.results[1]

\* this.processingQueue.filter((i) => i !== instruction)
filterQueue(queue, instruction) == SelectSeq(queue, LAMBDA i : i # instruction)

RemoveAt(seq, k) == SubSeq(seq, 1, k - 1) \o SubSeq(seq, k + 1, Len(seq))

\* processUserInstruction past the test of the flag: the flag is set and
\* processInstruction runs up to its first await
acceptCall(started) ==
  /\ isProcessing' = TRUE
  /\ SetStore(started.st)
  /\ inflight' = Append(inflight, started.call)
  /\ waiting' = {w \in waiting : w.instruction # started.call.instruction}
  /\ UNCHANGED lastResult

\* processUserInstruction returns the "please wait" result
rejectCall(instruction, context) ==
  /\ lastResult' = [instruction |-> instruction, result |-> PleaseWait]
  /\ waiting' = waiting \cup {[instruction |-> instruction, context |-> context]}
  /\ UNCHANGED <<storeVars, isProcessing, inflight>>

\* processUserInstruction once the instruction is pushed
enteredCall(instruction, context, entered) ==
  /\ processingQueue' = entered.queue
  /\ IF entered.rejected
     THEN rejectCall(instruction, context)
     ELSE acceptCall(startProcessing(instruction, context, Store))

\* a call of processUserInstruction(instruction, context)
Call(instruction, context) ==
  /\ enteredCall(instruction, context, enterCall(instruction, processingQueue, isProcessing))
  /\ lastOp' = Op("processUserInstruction", instruction)
  /\ UNCHANGED <<log, ops, written, parsed, memo, scored>>

\* this.processingQueue.push(instruction). The code reads the queue for its
\* first entry, for being empty, and to filter out all entries equal to an
\* instruction: further copies of an entry behind it change none of these,
\* and past MaxQueue entries they are left out
pushBounded(queue, instruction) ==
  IF Len(queue) >= MaxQueue /\ \E n \in 1..Len(queue) : queue[n] = instruction
  THEN queue
  ELSE Append(queue, instruction)

\* a call of processUserInstruction(instruction, context) during which the
\* calls of the store throw
CallFailing(instruction, context) ==
  /\ processingQueue' = pushBounded(processingQueue, instruction)
  /\ IF isProcessing
     THEN rejectCall(instruction, context)
     ELSE acceptCall(failingProcessing(startProcessing(instruction, context, Store),
                                       underTry(instruction), instruction, context, Store))
  /\ lastOp' = Op("processUserInstruction", instruction)
  /\ UNCHANGED <<log, ops, written, parsed, memo, scored>>

\* a caller submits an instruction, passing the mappings the store holds now
Submit(instruction) ==
  /\ submitted < MaxSubmits
  /\ submitted' = submitted + 1
  /\ Call(instruction, Context(mappings))
  /\ UNCHANGED timers

\* the oldest setTimeout callback runs; the event loop runs it only when no
\* continuation of a call is pending
TimerFire ==
  /\ timers # <<>>
  /\ inflight = <<>>
  /\ timers' = Tail(timers)
  /\ Call(Head(timers).instruction, Head(timers).context)
  /\ UNCHANGED submitted

\* aiEnhancedProcessing resumes after an await and executes the next command
Continue(k) ==
  LET call == inflight[k]
      out == executeCommand(Head(call.pending), call.context.currentMappings, Store)
  IN /\ call.pending # <<>>
     /\ SetStore(out.st)
     /\ inflight' = [inflight EXCEPT ![k] = [call EXCEPT !.pending = Tail(call.pending),
                                                         !.results = Append(call.results, out.result)]]
     /\ lastOp' = Op("continue", call.instruction)
     /\ UNCHANGED <<processingQueue, isProcessing, timers, submitted, lastResult, log, waiting,
                    ops, written, parsed, memo, scored>>

\* processUserInstruction resumes after processInstruction has settled: the
\* filter of the queue and the return, or neither when processInstruction
\* threw, and then the finally block
Finish(k) ==
  LET call == inflight[k]
      result == finalResult(call)
      queue == IF result = Exception THEN processingQueue
               ELSE filterQueue(processingQueue, call.instruction)
  IN /\ call.pending = <<>>
     /\ processingQueue' = queue
     /\ isProcessing' = FALSE
     /\ timers' = IF Len(queue) > 0
                  THEN Append(timers, [instruction |-> queue[1], context |-> call.context])
                  ELSE timers
     /\ inflight' = RemoveAt(inflight, k)
     /\ lastResult' = [instruction |-> call.instruction, result |-> result]
     /\ log' = IF Len(log) >= MaxLog THEN log
               ELSE Append(log, [instruction |-> call.instruction,
                                 result |-> result,
                                 fresh |-> call.context.currentMappings = call.before,
                                 before |-> call.before,
                                 after |-> mappings])
     /\ lastOp' = Op("finish", call.instruction)
     /\ UNCHANGED <<storeVars, submitted, waiting, ops, written, parsed, memo, scored>>

DoSubmit == \E instruction \in Instructions : Submit(instruction)
DoContinue == \E k \in 1..Len(inflight) : Continue(k)
DoFinish == \E k \in 1..Len(inflight) : Finish(k)

NextProc ==
  \/ DoSubmit
  \/ TimerFire
  \/ DoContinue
  \/ DoFinish

\* instructions submitted to the processor over an initially empty store
SpecProc == InitProc /\ [][NextProc]_vars

\* a caller that awaits the result of each call before it submits again
DoSubmitNext ==
  /\ inflight = <<>>
  /\ \E instruction \in SeqInstructions : Submit(instruction)

NextSeq ==
  \/ DoSubmitNext
  \/ DoContinue
  \/ DoFinish

\* instructions processed one at a time, each with the store's mappings of
\* its time
SpecSeq == InitProc /\ [][NextSeq]_vars

FaultInstructions ==
  {I_MapIdToUserId, I_DeleteMappingForId, I_MapNameAndEmail, I_DeleteAllMappings, I_Clear}

DoSubmitWorking ==
  /\ inflight = <<>>
  /\ \E instruction \in FaultInstructions : Submit(instruction)

\* the caller submits while the store is failing
DoSubmitFailing ==
  /\ inflight = <<>>
  /\ submitted < MaxSubmits
  /\ submitted' = submitted + 1
  /\ \E instruction \in FaultInstructions : CallFailing(instruction, Context(mappings))
  /\ UNCHANGED timers

NextFault ==
  \/ DoSubmitWorking
  \/ DoSubmitFailing
  \/ TimerFire
  \/ DoContinue
  \/ DoFinish

\* instructions processed one at a time over a store whose calls may throw
SpecFault == InitProc /\ [][NextFault]_vars

\* the oldest setTimeout callback runs while the store is failing
TimerFireFailing ==
  /\ timers # <<>>
  /\ inflight = <<>>
  /\ timers' = Tail(timers)
  /\ CallFailing(Head(timers).instruction, Head(timers).context)
  /\ UNCHANGED submitted

\* an instruction whose command is executed under the try of executeCommand,
\* and one that is left to handleBulkRemoval, which has none
RetryInstructions == {I_MapIdToUserId, I_Clear}

\* a caller submits, awaiting each call before the next, while the store works
DoSubmitRetryWorking ==
  /\ inflight = <<>>
  /\ \E instruction \in RetryInstructions : Submit(instruction)

\* the same while the store is failing
DoSubmitRetryFailing ==
  /\ inflight = <<>>
  /\ submitted < MaxSubmits
  /\ submitted' = submitted + 1
  /\ \E instruction \in RetryInstructions : CallFailing(instruction, Context(mappings))
  /\ UNCHANGED timers

NextRetry ==
  \/ DoSubmitRetryWorking
  \/ DoSubmitRetryFailing
  \/ TimerFire
  \/ TimerFireFailing
  \/ DoFinish

\* instructions processed over a store whose calls may throw at any time,
\* for as long as it may be. A call suspended at an await resumes, and a timer
\* that is set fires; callers may stop submitting, and nothing makes a failing
\* store work again
SpecRetry ==
  /\ InitProc
  /\ [][NextRetry]_vars
  /\ WF_vars(DoFinish)
  /\ WF_vars(TimerFire \/ TimerFireFailing)

\* "Delete mapping for id, delete mapping for name"
I_DeleteIdAndName == <<"D", "e", "l", "e", "t", "e", " ", "m", "a", "p", "p", "i", "n", "g",
                     " ", "f", "o", "r", " ", "i", "d", ",", " ", "d",
                     "e", "l", "e", "t", "e", " ", "m", "a", "p", "p",
                     "i", "n", "g", " ", "f", "o", "r", " ", "n", "a",
                     "m", "e">>

\* "Map id to user_idx"
I_MapIdToUserIdx == <<"M", "a", "p", " ", "i", "d", " ", "t", "o", " ", "u", "s", "e", "r",
                    "_", "i", "d", "x">>

\* "Map id to qqqqqqqq"
I_MapIdToUnknown == <<"M", "a", "p", " ", "i", "d", " ", "t", "o", " ", "q", "q", "q", "q",
                    "q", "q", "q", "q">>

\* "id and user_id"
I_IdAndUserId == <<"i", "d", " ", "a", "n", "d", " ", "u", "s", "e", "r", "_", "i", "d">>

\* instructions of every route through processInstruction: parsed with 0.9, with
\* 0.6, into several commands, into none; with fields the vocabularies lack
DispatchInstructions ==
  {I_MapIdToUserId, I_SetConfidence150, I_DeleteIdAndName, I_MapNameAndEmail, I_Clear,
   I_IdAndUserId, I_MapIdToUserIdx, I_MapIdToUnknown}

InitDispatch ==
  /\ Constructed
  /\ parsed = NoParse
  /\ scored = NoScore
  /\ memo = [parseCommand |-> [i \in DispatchInstructions |-> parseCommand(i, Vocabulary)],
             extractMultipleCommands |->
               [i \in DispatchInstructions |->
                  extractMultipleCommands(i, [sourceFields |-> SourceFields,
                                              targetFields |-> TargetFields])]]

DoSubmitDispatch ==
  /\ inflight = <<>>
  /\ \E instruction \in DispatchInstructions : Submit(instruction)

NextDispatch ==
  \/ DoSubmitDispatch
  \/ DoContinue
  \/ DoFinish

\* instructions of every route, processed one at a time
SpecDispatch == InitDispatch /\ [][NextDispatch]_vars

\* "map all"
I_MapAll == <<"m", "a", "p", " ", "a", "l", "l">>

\* "user_name"
F_user_name == <<"u", "s", "e", "r", "_", "n", "a", "m", "e">>

\* the vocabularies callers pass with a bulk instruction: the usual ones, six
\* source fields that all have a match, two targets that match equally well
\* and one that only shares a keyword, no match, no target at all
BulkVocabularies ==
  { [sourceFields |-> SourceFields, targetFields |-> TargetFields],
    [sourceFields |-> <<F_id, F_name, F_email, F_user_id, F_full_name, F_email_address>>,
     targetFields |-> TargetFields],
    [sourceFields |-> <<F_name, F_user_id>>, targetFields |-> <<F_full_name, F_user_name>>],
    [sourceFields |-> <<F_email>>, targetFields |-> <<F_user_id>>],
    [sourceFields |-> <<F_id>>, targetFields |-> <<>>] }

BulkInstructions == {I_MapAll, I_Clear}

\* processInstruction up to its first await, for any vocabularies
startProcessingIn(instruction, context, st) ==
  processWith(parseCommand(instruction, [source |-> context.sourceFields,
                                         target |-> context.targetFields]),
              extractMultipleCommands(instruction, context), instruction, context, st)

\* a call of processUserInstruction(instruction, context) with vocabularies of
\* the caller's choice
CallIn(instruction, context) ==
  /\ processingQueue' = enterCall(instruction, processingQueue, isProcessing).queue
  /\ IF enterCall(instruction, processingQueue, isProcessing).rejected
     THEN rejectCall(instruction, context)
     ELSE acceptCall(startProcessingIn(instruction, context, Store))
  /\ lastOp' = Op("processUserInstruction", instruction)
  /\ UNCHANGED <<log, ops, written, parsed, memo, scored>>

\* the caller submits a bulk instruction with some vocabularies and the
\* mappings the store holds now
DoSubmitBulk ==
  /\ inflight = <<>>
  /\ submitted < MaxSubmits
  /\ submitted' = submitted + 1
  /\ \E instruction \in BulkInstructions, v \in BulkVocabularies :
       CallIn(instruction, [sourceFields |-> v.sourceFields, targetFields |-> v.targetFields,
                            currentMappings |-> mappings])
  /\ UNCHANGED timers

NextBulk ==
  \/ DoSubmitBulk
  \/ DoFinish

\* bulk instructions over several vocabularies, one at a time
SpecBulk == Init /\ [][NextBulk]_vars

\* "map all similar"
I_MapAllSimilar == <<"m", "a", "p", " ", "a", "l", "l", " ", "s", "i", "m", "i", "l", "a", "r">>

\* "similar to id"
I_SimilarToId == <<"s", "i", "m", "i", "l", "a", "r", " ", "t", "o", " ", "i", "d">>

\* "clear like id"
I_ClearLikeId == <<"c", "l", "e", "a", "r", " ", "l", "i", "k", "e", " ", "i", "d">>

\* "remove id user_id"
I_RemoveIdUserId == <<"r", "e", "m", "o", "v", "e", " ", "i", "d", " ", "u", "s", "e", "r",
                    "_", "i", "d">>

\* "id user_id"
I_IdUserId == <<"i", "d", " ", "u", "s", "e", "r", "_", "i", "d">>

\* "hello"
I_Hello == <<"h", "e", "l", "l", "o">>

\* instructions no command is parsed from, alone or in fragments: they mention
\* the key words of one or of several heuristics, fields, or nothing
HeurInstructions ==
  {I_MapAll, I_MapAllSimilar, I_SimilarToId, I_ClearLikeId, I_Clear, I_RemoveIdUserId,
   I_IdUserId, I_Hello}

\* vocabularies in which a source field has a similar source field
HeurSourceFields == <<F_id, F_user_id, F_name>>

DoSubmitHeur ==
  /\ inflight = <<>>
  /\ submitted < MaxSubmits
  /\ submitted' = submitted + 1
  /\ \E instruction \in HeurInstructions :
       CallIn(instruction, [sourceFields |-> HeurSourceFields, targetFields |-> TargetFields,
                            currentMappings |-> mappings])
  /\ UNCHANGED timers

NextHeur ==
  \/ DoSubmitHeur
  \/ DoFinish

\* instructions left to the contextual heuristics, one at a time
SpecHeur == Init /\ [][NextHeur]_vars

\* ------------------------------------------------------------------------
\* calculateFieldSimilarity on its own: pairs of field names that are equal up
\* to case and separators, contain one another, share a common word, differ
\* by a few letters, or consist of separators only
\* ------------------------------------------------------------------------

F_User_ID == <<"U", "s", "e", "r", "-", "I", "D">>
F_color == <<"c", "o", "l", "o", "r">>
F_colour == <<"c", "o", "l", "o", "u", "r">>
F_qty == <<"q", "t", "y">>
F_underscore == <<"_">>
F_dash == <<"-">>
SimilarityFields ==
  {F_id, F_user_id, F_User_ID, F_name, F_full_name, F_email, F_color, F_colour, F_qty,
   F_user_name, F_underscore, F_dash, <<>>}

InitSim ==
  /\ Constructed
  /\ parsed = NoParse
  /\ memo = <<>>
  /\ scored \in {[field1 |-> a, field2 |-> b, score |-> <<>>] : a, b \in SimilarityFields}

\* calculateFieldSimilarity(field1, field2) returns
CalculateFieldSimilarity ==
  /\ scored.score = <<>>
  /\ scored' = [scored EXCEPT !.score = <<calculateFieldSimilarity(scored.field1, scored.field2)>>]
  /\ lastOp' = Op("calculateFieldSimilarity", scored.field1)
  /\ UNCHANGED <<storeVars, processingQueue, isProcessing, inflight, timers, submitted,
                 lastResult, log, waiting, ops, written, memo, parsed>>

SpecSim == InitSim /\ [][CalculateFieldSimilarity]_vars

\* ------------------------------------------------------------------------
\* parseCommand on its own: texts built from the command forms and tokens,
\* parsed against vocabularies that hold canonical spellings in mixed case
\* ------------------------------------------------------------------------

F_Email == <<"E", "m", "a", "i", "l">>
F_Full_Name == <<"F", "u", "l", "l", "_", "N", "a", "m", "e">>
ParseFields == [source |-> <<F_id, F_name, F_Email>>, target |-> <<F_user_id, F_Full_Name>>]

Sp == <<" ">>
T_Map(s, t) == <<"M", "a", "p", " ">> \o s \o <<" ", "t", "o", " ">> \o t
T_Create(s, t) == <<"c", "r", "e", "a", "t", "e", " ", "m", "a", "p", "p", "i", "n", "g", " ", "f", "r", "o", "m", " ">> \o s \o <<" ", "t", "o", " ">> \o t
T_Connect(s, t) == <<"C", "o", "n", "n", "e", "c", "t", " ">> \o s \o <<" ", "w", "i", "t", "h", " ">> \o t
T_Update(s, t) == <<"u", "p", "d", "a", "t", "e", " ", "m", "a", "p", "p", "i", "n", "g", " ", "f", "o", "r", " ">> \o s \o <<" ", "t", "o", " ">> \o t
T_Delete(s) == <<"D", "e", "l", "e", "t", "e", " ", "m", "a", "p", "p", "i", "n", "g", " ", "f", "o", "r", " ">> \o s
T_Transformation(s) == <<"S", "e", "t", " ", "t", "r", "a", "n", "s", "f", "o", "r", "m", "a", "t", "i", "o", "n", " ", "f", "o", "r", " ">> \o s \o <<" ", "t", "o", " ", "u", "p", "p", "e", "r", "c", "a", "s", "e">>
T_Confidence(s, n) == <<"s", "e", "t", " ", "c", "o", "n", "f", "i", "d", "e", "n", "c", "e", " ", "f", "o", "r", " ">> \o s \o <<" ", "t", "o">> \o n

\* tokens with an exact match, with a match up to case, with similar fields
\* only, and with neither
SourceTokens == {F_id, <<"I", "D">>, <<"n", "a", "m">>, <<"z", "z", "z", "z", "z", "z">>, F_email}
TargetTokens == {F_user_id, <<"U", "S", "E", "R", "_", "I", "D">>, <<"u", "s", "e", "r">>, <<"q", "q", "q", "q", "q", "q", "q", "q">>, F_full_name}
Numbers == {<<" ", "5", "0">>, <<" ", "1", "5", "0">>, <<" ", "0", ".", "5">>}

TwoFieldForms(s, t) == {T_Map(s, t), T_Create(s, t), T_Connect(s, t), T_Update(s, t)}

ParseInputs ==
  UNION {{[text |-> x, source |-> s, target |-> t] : x \in TwoFieldForms(s, t)} :
           s \in SourceTokens, t \in TargetTokens}
  \cup UNION {{[text |-> x, source |-> s, target |-> Absent] :
                  x \in {T_Delete(s), T_Transformation(s)}} : s \in SourceTokens}
  \cup UNION {{[text |-> T_Confidence(s, n), source |-> s, target |-> Absent] : n \in Numbers} :
                s \in SourceTokens}
  \cup {[text |-> I_Clear, source |-> Absent, target |-> Absent]}

InitParse ==
  /\ Constructed
  /\ parsed \in {[input |-> i, result |-> <<>>] : i \in ParseInputs}
  /\ memo = <<>>
  /\ scored = NoScore

\* parseCommand(text, vocabularies) returns
ParseCommand ==
  /\ parsed.result = <<>>
  /\ parsed.input.text # <<>>
  /\ parsed' = [parsed EXCEPT !.result = <<parseCommand(parsed.input.text, ParseFields)>>]
  /\ lastOp' = Op("parseCommand", parsed.input.text)
  /\ UNCHANGED <<storeVars, processingQueue, isProcessing, inflight, timers, submitted,
                 lastResult, log, waiting, ops, written, memo, scored>>

SpecParse == InitParse /\ [][ParseCommand]_vars

\* ------------------------------------------------------------------------
\* Properties of the store
\* ------------------------------------------------------------------------

\* the positions of the active mappings whose field f has the value v
ActiveWith(f, v) ==
  {i \in 1..Len(mappings) : mappings[i].status = "active" /\ mappings[i][f] = v}

\* the values the field f takes in the collection
ValuesOf(f) == {mappings[i][f] : i \in 1..Len(mappings)}

SeqRange(seq) == {seq[i] : i \in 1..Len(seq)}

\* what validateMappings() returns in the current state
Validated == validateMappings(Store).conflicts

\* the conflicts of the given type about the value v, among cs
ConflictsAbout(cs, type, v) ==
  {k \in 1..Len(cs) : cs[k].type = type /\ cs[k].id = <<"conflict", type, v>>}

\* cs holds, for the field f, one conflict of the type per value shared by two
\* or more active mappings, listing exactly their ids, and no other conflict
\* of that type
OnePerSharedValue(cs, type, f) ==
  /\ \A v \in ValuesOf(f) :
       IF Cardinality(ActiveWith(f, v)) >= 2
       THEN /\ Cardinality(ConflictsAbout(cs, type, v)) = 1
            /\ \A k \in ConflictsAbout(cs, type, v) :
                 /\ SeqRange(cs[k].affected_mappings)
                      = {mappings[i].id : i \in ActiveWith(f, v)}
                 /\ Len(cs[k].affected_mappings) = Cardinality(ActiveWith(f, v))
       ELSE ConflictsAbout(cs, type, v) = {}
  /\ \A k \in 1..Len(cs) :
       cs[k].type = type => \E v \in ValuesOf(f) : k \in ConflictsAbout(cs, type, v)

\* C1: in every state of the collection, validateMappings() yields exactly one
\* duplicate_source conflict for each source_field shared by two or more
\* active mappings, whose affected_mappings are exactly the ids of those
\* mappings, and no duplicate_source conflict for any other source_field.
C1_DuplicateSource == OnePerSharedValue(Validated, "duplicate_source", "source_field")

\* C1 witness: validateMappings has run on a collection in which a source
\* field is shared by two active mappings and by one that is not active.
C1_Witness ==
  /\ lastOp.op = "validateMappings"
  /\ \E k \in 1..Len(conflicts) :
       /\ conflicts[k].type = "duplicate_source"
       /\ \E i \in 1..Len(mappings) :
            /\ mappings[i].status # "active"
            /\ conflicts[k].id = <<"conflict", "duplicate_source", mappings[i].source_field>>

\* the position in the collection of the mapping with the given id
PositionOf(id) == CHOOSE i \in 1..Len(mappings) : mappings[i].id = id

\* C2: validateMappings() yields one duplicate_target conflict for each
\* target_field shared by two or more active mappings and none otherwise, and
\* in every conflict the affected_mappings are in collection order.
C2_DuplicateTargetInOrder ==
  /\ OnePerSharedValue(Validated, "duplicate_target", "target_field")
  /\ \A k \in 1..Len(Validated) :
       \A a, b \in 1..Len(Validated[k].affected_mappings) :
         a < b => PositionOf(Validated[k].affected_mappings[a])
                    < PositionOf(Validated[k].affected_mappings[b])

\* C2 witness: validateMappings has run and reports a duplicate_target
\* conflict about three mappings.
C2_Witness ==
  /\ lastOp.op = "validateMappings"
  /\ \E k \in 1..Len(conflicts) :
       conflicts[k].type = "duplicate_target" /\ Len(conflicts[k].affected_mappings) >= 3

RECURSIVE Ascending(_)
Ascending(S) ==
  IF S = {} THEN <<>>
  ELSE LET least == CHOOSE x \in S : \A y \in S : x <= y
       IN <<least>> \o Ascending(S \ {least})

\* the conflicts of one type a recomputation from scratch yields: one for each
\* value of f that two or more active mappings share, the values in the order
\* in which the collection first has them
ExpectedConflicts(type, f) ==
  LET firsts == {i \in 1..Len(mappings) :
                   /\ mappings[i].status = "active"
                   /\ Cardinality(ActiveWith(f, mappings[i][f])) >= 2
                   /\ \A j \in ActiveWith(f, mappings[i][f]) : i <= j}
      order == Ascending(firsts)
  IN [n \in 1..Len(order) |->
        [id |-> <<"conflict", type, mappings[order[n]][f]>>,
         type |-> type,
         affected_mappings |->
           LET members == Ascending(ActiveWith(f, mappings[order[n]][f]))
           IN [m \in 1..Len(members) |-> mappings[members[m]].id]]]

Recomputed ==
  ExpectedConflicts("duplicate_source", "source_field")
  \o ExpectedConflicts("duplicate_target", "target_field")

\* C3: right after setDocumentMappings, addMapping or updateMapping the stored
\* conflicts are the conflicts of a recomputation from scratch over the
\* current collection.
C3_ConflictsRecomputed ==
  lastOp.op \in {"setDocumentMappings", "addMapping", "updateMapping"}
    => conflicts = Recomputed

\* C3 witness: updateMapping has returned and the store holds a conflict.
C3_Witness == lastOp.op = "updateMapping" /\ conflicts # <<>>

\* C4 as claimed: every id in the affected_mappings of a stored conflict is
\* the id of a mapping of the collection whose status is active.
C4_AffectedExistAndActive ==
  \A k \in 1..Len(conflicts) :
    \A id \in SeqRange(conflicts[k].affected_mappings) :
      \E i \in 1..Len(mappings) : mappings[i].id = id /\ mappings[i].status = "active"

\* C4 amended: every id in the affected_mappings of a stored conflict is the
\* id of a mapping of the collection, whose status is active or (after a
\* resolveConflict "reject" of another conflict about it) disabled.
C4_AffectedExist ==
  \A k \in 1..Len(conflicts) :
    \A id \in SeqRange(conflicts[k].affected_mappings) :
      \E i \in 1..Len(mappings) :
        mappings[i].id = id /\ mappings[i].status \in {"active", "disabled"}

\* C4 witness: resolveConflict has left a conflict about a disabled mapping.
C4_Witness ==
  /\ lastOp.op = "resolveConflict"
  /\ \E k \in 1..Len(conflicts) :
       \E id \in SeqRange(conflicts[k].affected_mappings) :
         \E i \in 1..Len(mappings) : mappings[i].id = id /\ mappings[i].status = "disabled"

\* the fields of a mapping that callers supply
Supplied(m) ==
  [id |-> m.id, source_field |-> m.source_field, target_field |-> m.target_field,
   transformation_type |-> m.transformation_type, confidence |-> m.confidence,
   status |-> m.status]

\* C5: after any sequence of addMapping, updateMapping and removeMapping,
\* exportMappings() is exactly the active records, in insertion order, each
\* with the values last written to it.
C5_ExportRoundTrip ==
  LET exported == exportMappings(Store)
      expected == SelectSeq(written, LAMBDA w : w.status = "active")
  IN /\ Len(exported) = Len(expected)
     /\ \A i \in 1..Len(exported) : Supplied(exported[i]) = expected[i]

\* C5 witness: after an update, the export holds an updated record and leaves
\* out a record that is not active.
C5_Witness ==
  /\ lastOp.op = "updateMapping"
  /\ Len(exportMappings(Store)) >= 1
  /\ Len(exportMappings(Store)) < Len(mappings)
  /\ \E i \in 1..Len(mappings) :
       mappings[i].status = "active" /\ mappings[i].target_field = F_full_name
       /\ mappings[i].confidence = SIM_COMMONWORD

\* ------------------------------------------------------------------------
\* Properties of the processor
\* ------------------------------------------------------------------------

\* the positions in ms of the active mappings from a to b
ActiveFromTo(ms, a, b) ==
  {i \in 1..Len(ms) :
     ms[i].status = "active" /\ ms[i].source_field = a /\ ms[i].target_field = b}

\* the positions in ms of the active mappings
ActiveIn(ms) == {i \in 1..Len(ms) : ms[i].status = "active"}

\* the n-th completed call was made with the store's mappings of its time and
\* started in the state the call before it left
InSuccession(n) ==
  /\ log[n].fresh
  /\ n > 1 => log[n].before = log[n - 1].after

\* the log records, at positions n - 1 and n, two applications in succession
\* of the same instruction "Map a to b"
AppliedTwice(n) ==
  /\ log[n].instruction \in {I_MapIdToUserId, I_MapIdToFullName}
  /\ log[n - 1].instruction = log[n].instruction
  /\ log[n - 1].fresh
  /\ InSuccession(n)

\* C6 as claimed: when "Map a to b" has been processed twice in succession,
\* there is exactly one active mapping from a to b, the second application
\* reported success with one change of type updated, and it left the
\* collection as the first had left it.
C6_IdempotentMap ==
  \A n \in 2..Len(log) :
    AppliedTwice(n) =>
      LET command == parsedInstructions[log[n].instruction].command
      IN /\ Cardinality(ActiveFromTo(log[n].after, command.sourceField,
                                     command.targetField)) = 1
         /\ log[n].result.success
         /\ Len(log[n].result.appliedChanges) = 1
         /\ log[n].result.appliedChanges[1].type = "updated"
         /\ log[n].after = log[n - 1].after

\* the log starts with the first k instructions of the scenario, each
\* processed in succession
Scenario == <<I_MapIdToUserId, I_MapIdToFullName, I_DeleteMappingForId>>

ScenarioRan(k) ==
  /\ Len(log) >= k
  /\ \A n \in 1..k : log[n].instruction = Scenario[n] /\ InSuccession(n)

\* C7: from the empty collection, "Map id to user_id" yields one active
\* mapping id -> user_id with confidence 0.85; then "Map id to full_name"
\* redirects that mapping to full_name, adds no record and reports one
\* updated change; then "Delete mapping for id" leaves no active mapping and
\* reports one deleted change whose targetField is full_name.
C7_Scenario ==
  /\ ScenarioRan(1) =>
       /\ Len(log[1].after) = 1
       /\ ActiveFromTo(log[1].after, F_id, F_user_id) = {1}
       /\ log[1].after[1].confidence = CREATE_CONFIDENCE
  /\ ScenarioRan(2) =>
       /\ Len(log[2].after) = 1
       /\ log[2].after[1].id = log[1].after[1].id
       /\ ActiveFromTo(log[2].after, F_id, F_full_name) = {1}
       /\ Len(log[2].result.appliedChanges) = 1
       /\ log[2].result.appliedChanges[1].type = "updated"
  /\ ScenarioRan(3) =>
       /\ ActiveIn(log[3].after) = {}
       /\ Len(log[3].result.appliedChanges) = 1
       /\ log[3].result.appliedChanges[1].type = "deleted"
       /\ log[3].result.appliedChanges[1].targetField = F_full_name

\* C7 witness: the three instructions of the scenario have been processed.
C7_Witness == ScenarioRan(3) /\ Len(log) = 3 /\ lastOp.op = "finish"

\* C8 as claimed: when "Delete all mappings" or "clear" has been processed
\* over N active mappings, no active mapping is left and the result lists N
\* changes.
C8_BulkClear ==
  \A n \in 1..Len(log) :
    (log[n].instruction \in {I_DeleteAllMappings, I_Clear} /\ InSuccession(n)) =>
      /\ ActiveIn(log[n].after) = {}
      /\ Len(log[n].result.appliedChanges) = Cardinality(ActiveIn(log[n].before))

\* C9: at most one call is inside processInstruction at any time.
C9_AtMostOneInFlight == Len(inflight) <= 1

\* C9 witness: a call is inside processInstruction while the queue holds
\* the instruction of another call beside its own.
C9_Witness ==
  /\ Len(inflight) = 1
  /\ Len(processingQueue) >= 2
  /\ \E k \in 1..Len(processingQueue) : processingQueue[k] # inflight[1].instruction

\* C10: a call made while an instruction is in flight appends its instruction
\* to the queue and returns success = false with the "please wait" message
\* and no applied changes, and changes neither the store nor the flag.
C10_QueuedAndRejected ==
  [][(inflight # <<>> /\ lastOp'.op = "processUserInstruction") =>
       /\ processingQueue' = Append(processingQueue, lastOp'.instruction)
       /\ lastResult'.instruction = lastOp'.instruction
       /\ ~lastResult'.result.success
       /\ lastResult'.result.message = "please_wait"
       /\ lastResult'.result.appliedChanges = <<>>
       /\ UNCHANGED <<mappings, conflicts, documentId, idCounter, isProcessing>>]_vars

\* C10 witness: a call has just returned the "please wait" result while the
\* call in flight had already written to the store.
C10_Witness ==
  /\ lastOp.op = "processUserInstruction"
  /\ lastResult.result.message = "please_wait"
  /\ lastResult.instruction = lastOp.instruction
  /\ inflight # <<>>
  /\ mappings # <<>>

\* nothing is pending: no call is in flight and no timer is set, so nothing
\* more is processed unless a caller submits again
Idle == inflight = <<>> /\ timers = <<>>

\* C11 as claimed: every instruction rejected with "please wait" is processed
\* by the retries that follow the completion of the call in flight, whatever
\* its text: once nothing is pending, no rejected instruction is left
\* unprocessed.
C11_RejectedEventuallyProcessed == Idle => waiting = {}

\* the command executeCommand runs first for instruction i: the parsed command
\* when it passes the threshold, else the first extracted command, if any
FirstCommand(i) ==
  IF isDirect(parsedInstructions[i]) THEN <<parsedInstructions[i].command>>
  ELSE IF multipleCommands[i] # <<>> THEN <<multipleCommands[i][1]>>
  ELSE <<>>

\* the command is a delete, modify_transformation or set_confidence whose
\* source field no active mapping of ms has
NamesAbsent(command, ms) ==
  /\ command.type \in {"delete", "modify_transformation", "set_confidence"}
  /\ \A j \in 1..Len(ms) :
       ~(ms[j].status = "active" /\ ms[j].source_field = command.sourceField)

\* the step is a call that entered processInstruction
CallAccepted == lastOp'.op = "processUserInstruction" /\ Len(inflight') = Len(inflight) + 1

Last(seq) == seq[Len(seq)]

\* the step failed the command: no success, no change reported, store and
\* conflicts as they were
FailedUnchanged(result) ==
  /\ ~result.success
  /\ result.appliedChanges = <<>>
  /\ UNCHANGED <<mappings, conflicts>>

C13_NeverThrows ==
  \A n \in 1..Len(log) : log[n].result # Exception

\* errors raised under executeCommand do end as a result without success
C13_CaughtUnderTry ==
  \A n \in 1..Len(log) :
    underTry(log[n].instruction) => log[n].result # Exception

\* the ids of the active mappings of another source field that already have
\* the target field of the command
OthersWithTarget(command, ms) ==
  {ms[j].id : j \in {j \in 1..Len(ms) : /\ ms[j].status = "active"
                                        /\ ms[j].target_field = command.targetField
                                        /\ ms[j].source_field # command.sourceField}}

ConflictNaming(cs, type, ids) ==
  \E i \in 1..Len(cs) : cs[i].type = type /\ ids \subseteq SeqRange(cs[i].affected_mappings)

\* the step applied the command as one change, and the conflicts after it
\* hold a duplicate_target conflict naming the changed mapping with each of
\* the others
AppliedWithConflict(result, others) ==
  /\ result.success
  /\ Len(result.appliedChanges) = 1
  /\ \A id \in others :
       ConflictNaming(conflicts', "duplicate_target",
                      {id, result.appliedChanges[1].mappingId})

CreateOntoTakenTarget(command, ms) ==
  IF command.type = "create" THEN OthersWithTarget(command, ms) # {} ELSE FALSE

CreatedIds ==
  CASE lastOp'.op = "setDocumentMappings" -> {mappings'[i].id : i \in 1..Len(mappings')}
    [] lastOp'.op = "addMapping" -> {Last(mappings').id}
    [] OTHER -> {}

\* C15 as claimed: the ids of the mappings in the store are pairwise distinct,
\* and a record the store creates, by addMapping or by setDocumentMappings
\* (also when called again with the same documentId), never gets an id that
\* a record already had.
C15_IdsUniqueNeverReused ==
  [][/\ \A i, j \in 1..Len(mappings') : mappings'[i].id = mappings'[j].id => i = j
     /\ CreatedIds \cap MappingIds = {}]_vars

\* the ids are pairwise distinct in every state
C15_IdsDistinct == \A i, j \in 1..Len(mappings) : mappings[i].id = mappings[j].id => i = j

\* C16 as claimed: after any sequence of processed instructions every stored
\* mapping has a confidence between 0 and 1; a set_confidence command with a
\* number above 1 stores that number divided by 100, so "set confidence for
\* id to 150" cannot leave a confidence above 1 in the store.
C16_ConfidenceInRange ==
  \A i \in 1..Len(mappings) : mappings[i].confidence >= 0 /\ mappings[i].confidence <= ONE

\* "Set confidence for id to 50" stores 0.5
C16_PercentStored ==
  \A n \in 1..Len(log) :
    (log[n].instruction = I_SetConfidence50 /\ log[n].result.success)
      => \E i \in 1..Len(log[n].after) :
           log[n].after[i].source_field = F_id /\ log[n].after[i].confidence * 2 = ONE

\* the fields of a mapping other than its id, its status and the flag
ContentFields == {"source_field", "target_field", "transformation_type", "confidence"}

\* the positions whose record a step of updateMapping or resolveConflict
\* changed otherwise than by a pure change of status made by resolveConflict
MutatedAt ==
  {i \in 1..Len(mappings) :
     \/ lastOp'.op = "updateMapping" /\ mappings'[i] # mappings[i]
     \/ /\ lastOp'.op = "resolveConflict"
        /\ \E f \in ContentFields : mappings'[i][f] # mappings[i][f]}

\* C17 as claimed: every mutation of a mapping by updateMapping or by
\* resolveConflict, other than a pure change of status made by a conflict
\* resolution, leaves the mapping with user_modified = true; that covers
\* resolveConflict with resolution "modify".
C17_MutationsMarked ==
  [][lastOp'.op \in {"updateMapping", "resolveConflict"}
       => \A i \in MutatedAt : mappings'[i].user_modified]_vars

\* updateMapping alone does mark every record it changes
C17_UpdateMarks ==
  [][lastOp'.op = "updateMapping" => \A i \in MutatedAt : mappings'[i].user_modified]_vars

\* the token has an exact match, up to case, among the fields
ExactIn(token, fields) ==
  \E i \in 1..Len(fields) : toLowerCase(fields[i]) = toLowerCase(token)

\* the field was replaced by the canonical spelling of the token
Canonical(field, token, fields) ==
  \E i \in 1..Len(fields) : fields[i] = field /\ toLowerCase(field) = toLowerCase(token)

\* the token is left unresolved: an ambiguity names it, and the confidence is 0.6
Unresolved(r, kind, token) ==
  /\ r.confidence = CONF_AMBIGUOUS
  /\ \E a \in 1..Len(r.ambiguities) :
       r.ambiguities[a].kind = kind /\ r.ambiguities[a].field = toLowerCase(token)

\* what C18 asks of the result r for the tokens of the input
ResolvedOrAmbiguous(r, input) ==
  LET exactS == ExactIn(input.source, ParseFields.source)
      exactT == input.target = Absent \/ ExactIn(input.target, ParseFields.target)
  IN /\ (r.confidence = CONF_NO_AMBIGUITY) <=> (exactS /\ exactT)
     /\ IF exactS THEN Canonical(r.command.sourceField, input.source, ParseFields.source)
        ELSE Unresolved(r, "source_not_found", input.source)
     /\ IF input.target = Absent THEN TRUE
        ELSE IF exactT THEN Canonical(r.command.targetField, input.target, ParseFields.target)
        ELSE Unresolved(r, "target_not_found", input.target)

PatternMatched == parsed.result # <<>> /\ parsed.result[1].command.type \notin {"null", "unknown"}

\* C18 as claimed: when a pattern matches, parseCommand returns confidence 0.9
\* exactly when every extracted source and target token has an exact
\* case-insensitive match in its vocabulary, and then replaces the token by
\* the canonical spelling; a token without exact match is recorded as an
\* ambiguity naming the field, and the confidence is 0.6.
C18_ConfidenceIffExact ==
  PatternMatched => ResolvedOrAmbiguous(parsed.result[1], parsed.input)

\* the conflict with id stripped from its affected mappings
Stripped(conflict, id) ==
  [conflict EXCEPT !.affected_mappings = SelectSeq(@, LAMBDA a : a # id)]

\* the step removed the record of id and nothing else, and the conflicts
\* remain, each without id among its affected mappings
RemovedAndStripped(id) ==
  /\ mappings' = SelectSeq(mappings, LAMBDA m : m.id # id)
  /\ conflicts' = [i \in 1..Len(conflicts) |-> Stripped(conflicts[i], id)]

\* C19 as claimed: removeMapping(id) deletes exactly the record with that id,
\* leaves the other mappings as they are and in order, strips the id from the
\* affected mappings of every conflict, the conflicts themselves remaining,
\* and does not validate again.
C19_RemoveStripsConflicts ==
  [][lastOp'.op = "removeMapping"
       => \E id \in MappingIds \cup {UnknownMappingId} : RemovedAndStripped(id)]_vars

\* the part of C19 about the mappings alone
C19_RemoveKeepsOthers ==
  [][lastOp'.op = "removeMapping"
       => \E id \in MappingIds \cup {UnknownMappingId} :
            mappings' = SelectSeq(mappings, LAMBDA m : m.id # id)]_vars

\* what a resolution makes of an affected mapping m
ResolvedMapping(m, resolution, data) ==
  CASE resolution = "accept" -> [m EXCEPT !.status = "active"]
    [] resolution = "reject" -> [m EXCEPT !.status = "disabled"]
    [] resolution = "modify" /\ data # NoData ->
         [f \in DOMAIN m |-> IF f = "status" THEN "active"
                             ELSE IF f \in DOMAIN data THEN data[f] ELSE m[f]]
    [] OTHER -> m

\* out is st with its k-th conflict resolved: the affected mappings are
\* resolved, the other mappings are as they were, and the conflicts are the
\* other conflicts, as they were and in order
ResolvedAt(st, k, resolution, data, out) ==
  /\ out.mappings = [i \in 1..Len(st.mappings) |->
                       IF st.mappings[i].id \in SeqRange(st.conflicts[k].affected_mappings)
                       THEN ResolvedMapping(st.mappings[i], resolution, data)
                       ELSE st.mappings[i]]
  /\ out.conflicts = SubSeq(st.conflicts, 1, k - 1)
                       \o SubSeq(st.conflicts, k + 1, Len(st.conflicts))

ParsedDirectly(i) ==
  parsedInstructions[i].command # NullCommand /\ parsedInstructions[i].confidence > 6000

\* the commands of the fragments of text that parse with confidence above 0.5,
\* in the order of the fragments
QualifyingFragments(text) ==
  LET parts == split(text)
      results == [k \in 1..Len(parts) |-> parseCommand(trim(parts[k]), Vocabulary)]
      kept == SelectSeq(results, LAMBDA r : r.command # NullCommand /\ r.confidence > 5000)
  IN [k \in 1..Len(kept) |-> kept[k].command]

\* the step runs executeCommand(command) for call c over the store as it is,
\* leaving the store it returns and adding its result as the n-th of the call
Executes(command, c, n) ==
  /\ Len(c.results) = n
  /\ c.results[n] = executeCommand(command, c.context.currentMappings, Store).result
  /\ Store' = executeCommand(command, c.context.currentMappings, Store).st

\* the changes of results[1..n], one result after the other
RECURSIVE ChangesUpTo(_, _)
ChangesUpTo(results, n) ==
  IF n = 0 THEN <<>> ELSE ChangesUpTo(results, n - 1) \o results[n].appliedChanges

\* the step starts processInstruction for the submitted instruction as C21 has it
DispatchedAsClaimed(i, c) ==
  IF ParsedDirectly(i)
  THEN /\ ~c.multi /\ c.pending = <<>>
       /\ Executes(parsedInstructions[i].command, c, 1)
  ELSE IF multipleCommands[i] # <<>>
  THEN /\ c.multi /\ c.pending = Tail(multipleCommands[i])
       /\ Executes(multipleCommands[i][1], c, 1)
  ELSE /\ ~c.multi /\ c.pending = <<>>
       /\ c.results = <<contextualInterpretation(i, c.context, Store).result>>
       /\ Store' = contextualInterpretation(i, c.context, Store).st

\* the call returns what C21 has it return
ReportedAsClaimed(c, result) ==
  IF c.multi
  THEN /\ result.success = (\E n \in 1..Len(c.results) : c.results[n].success)
       /\ result.appliedChanges = ChangesUpTo(c.results, Len(c.results))
       /\ Len(c.results) = Len(multipleCommands[c.instruction])
  ELSE result = c.results[1]

\* C21: the parsed command is executed directly exactly when the parser gave a
\* command with confidence above 0.6; otherwise the fragments that parse above
\* 0.5 are executed in order, one per step, their changes accumulated in
\* order and success reported exactly when one of them succeeded; the
\* contextual heuristics run only when no fragment qualifies.
C21_Dispatch ==
  /\ \A i \in DispatchInstructions : multipleCommands[i] = QualifyingFragments(i)
  /\ [][/\ CallAccepted => DispatchedAsClaimed(lastOp'.instruction, Last(inflight'))
        /\ lastOp'.op = "continue" =>
             /\ inflight[1].pending # <<>>
             /\ inflight'[1].pending = Tail(inflight[1].pending)
             /\ SubSeq(inflight'[1].results, 1, Len(inflight[1].results)) = inflight[1].results
             /\ Executes(Head(inflight[1].pending), inflight'[1], Len(inflight[1].results) + 1)
        /\ lastOp'.op = "finish" =>
             /\ inflight[1].pending = <<>>
             /\ ReportedAsClaimed(inflight[1], lastResult'.result)]_vars

\* C21 witness: an instruction parsed with confidence 0.6 was run as a
\* fragment, and an instruction of two fragments of which one failed was
\* reported as a success with the one change.
C21_Witness ==
  /\ lastOp.op = "finish"
  /\ \E n, m \in 1..Len(log) :
       /\ log[n].instruction = I_SetConfidence150
       /\ log[n].result.message = "applied_changes" /\ log[n].result.success
       /\ log[m].instruction = I_DeleteIdAndName
       /\ log[m].result.success /\ Len(log[m].result.appliedChanges) = 1

\* the source fields a bulk instruction considers
Considered(context) ==
  SubSeq(context.sourceFields, 1,
         IF Len(context.sourceFields) < 5 THEN Len(context.sourceFields) ELSE 5)

\* the first of the targets with the highest score for source (0: no target)
BestTarget(source, targets) ==
  IF targets = <<>> THEN 0
  ELSE CHOOSE k \in 1..Len(targets) :
         /\ \A j \in 1..Len(targets) :
              calculateFieldSimilarity(source, targets[j])
                <= calculateFieldSimilarity(source, targets[k])
         /\ \A j \in 1..(k - 1) :
              calculateFieldSimilarity(source, targets[j])
                < calculateFieldSimilarity(source, targets[k])

BestScore(source, targets) ==
  IF targets = <<>> THEN 0
  ELSE calculateFieldSimilarity(source, targets[BestTarget(source, targets)])

\* the considered source fields whose best target scores above 0.6, in order
Matched(context) ==
  SelectSeq(Considered(context), LAMBDA s : BestScore(s, context.targetFields) > 6000)

\* mapping m is the one a bulk instruction creates for source under context
BulkCreated(m, source, context) ==
  /\ m.source_field = source
  /\ m.target_field = context.targetFields[BestTarget(source, context.targetFields)]
  /\ m.confidence = BestScore(source, context.targetFields)
  /\ m.transformation_type = "direct_mapping"

\* call c, a bulk mapping, added to the collection it found one mapping for
\* each matched source field, and reported them
BulkAsClaimed(c) ==
  LET new == Matched(c.context)
      base == Len(c.before)
  IN /\ Len(mappings) = base + Len(new)
     /\ SubSeq(mappings, 1, base) = c.before
     /\ \A k \in 1..Len(new) : BulkCreated(mappings[base + k], new[k], c.context)
     /\ c.results[1].success = (Len(new) > 0)
     /\ Len(c.results[1].appliedChanges) = Len(new)
     /\ Len(mappings) - base <= 5

\* C22: a bulk mapping considers the first five source fields at most, creates
\* a mapping exactly for those whose best target (the first of the best on a
\* tie) scores above 0.6, with that score as confidence and direct_mapping as
\* transformation type, reports success exactly when it created one, and so
\* adds at most five mappings.
C22_BulkMapping ==
  \A k \in 1..Len(inflight) :
    inflight[k].instruction = I_MapAll => BulkAsClaimed(inflight[k])

\* C22 witness: bulk mappings ran with six matching source fields (five
\* mappings created), with two equally good targets, and with no match.
C22_Witness ==
  /\ inflight # <<>> /\ inflight[1].instruction = I_MapAll
  /\ Len(inflight[1].context.sourceFields) = 6
  /\ Len(mappings) = Len(inflight[1].before) + 5
  /\ \E n, m \in 1..Len(log) :
       /\ log[n].result.message = "bulk_created" /\ ~log[n].result.success
       /\ log[m].result.message = "bulk_created"
       /\ Len(log[m].result.appliedChanges) = 1
       /\ log[m].result.appliedChanges[1].targetField = F_full_name
       /\ log[m].result.appliedChanges[1].sourceField = F_name

\* the text mentions the word
Mentions(text, word) == includes(toLowerCase(text), word)

\* the text mentions a field of the list
MentionsOneOf(text, fields) == \E k \in 1..Len(fields) : Mentions(text, toLowerCase(fields[k]))

\* the heuristic C23 gives an instruction to
Applicable(text, context) ==
  IF Mentions(text, S_all) /\ Mentions(text, S_map) THEN "bulk_mapping"
  ELSE IF Mentions(text, S_similar) \/ Mentions(text, S_like) THEN "similar_fields"
  ELSE IF Mentions(text, S_remove) \/ Mentions(text, S_clear) THEN "bulk_removal"
  ELSE IF MentionsOneOf(text, context.sourceFields) /\ MentionsOneOf(text, context.targetFields)
  THEN "field_mentions"
  ELSE "failure"

\* the heuristic a result comes from
HeuristicOf(result) ==
  CASE result.message = "bulk_created" -> "bulk_mapping"
    [] result.message \in {"specify_field", "no_similar_fields", "found_similar_fields"}
         -> "similar_fields"
    [] result.message = "bulk_removed" -> "bulk_removal"
    [] result.message = "need_clarification" -> "field_mentions"
    [] result.message = "not_understood" -> "failure"
    [] OTHER -> "none"

\* the call went to the contextual heuristics
Contextual(c) == ~c.multi /\ HeuristicOf(c.results[1]) # "none"

\* what holds of the collection after each heuristic of call c: a bulk mapping
\* removes nothing, a bulk removal adds nothing, the others change nothing
OnlyThatOneRan(c, h) ==
  /\ h = "bulk_mapping" =>
       /\ Len(mappings) >= Len(c.before)
       /\ SubSeq(mappings, 1, Len(c.before)) = c.before
  /\ h = "bulk_removal" =>
       \A k \in 1..Len(mappings) : \E j \in 1..Len(c.before) : mappings[k] = c.before[j]
  /\ h \in {"similar_fields", "field_mentions", "failure"} =>
       /\ mappings = c.before
       /\ c.results[1].appliedChanges = <<>>
       /\ ~c.results[1].success

\* C23: an instruction that reaches the contextual heuristics gets the first
\* applicable of bulk mapping ("all" and "map"), similar fields ("similar" or
\* "like"), bulk removal ("remove" or "clear"), field mentions, failure, and
\* only that one; the similar-field, field-mention and failure heuristics
\* leave the store as it was.
C23_HeuristicPriority ==
  \A k \in 1..Len(inflight) :
    Contextual(inflight[k]) =>
      /\ HeuristicOf(inflight[k].results[1])
           = Applicable(inflight[k].instruction, inflight[k].context)
      /\ OnlyThatOneRan(inflight[k], HeuristicOf(inflight[k].results[1]))

\* C23 witness: over a collection that is not empty, an instruction that
\* mentions "clear" and "like" got the similar-field clarification, after one
\* that mentions "all", "map" and "similar" had created mappings.
C23_Witness ==
  /\ inflight # <<>> /\ inflight[1].instruction = I_ClearLikeId
  /\ inflight[1].results[1].message = "found_similar_fields"
  /\ mappings # <<>>
  /\ \E n \in 1..Len(log) :
       log[n].instruction = I_MapAllSimilar /\ log[n].result.success

\* ------------------------------------------------------------------------
\* C24
\* ------------------------------------------------------------------------

\* the four-step score of two field names, in units of 1/10000; the quotient of
\* the fourth step is rounded down
FourStepSimilarity(field1, field2) ==
  LET a == stripSeparators(toLowerCase(field1))
      b == stripSeparators(toLowerCase(field2))
      maxLen == IF Len(a) > Len(b) THEN Len(a) ELSE Len(b)
      distance == levenshteinDistance(a, b)
  IN IF a = b THEN 10000
     ELSE IF a = <<>> \/ b = <<>> THEN 0
     ELSE IF includes(a, b) \/ includes(b, a) THEN 8000
     ELSE IF \E w \in DOMAIN commonWords : includes(a, commonWords[w]) /\ includes(b, commonWords[w])
          THEN 6000
     ELSE IF distance >= maxLen THEN 0
     ELSE (10000 * (maxLen - distance)) \div maxLen

\* C24: the score calculateFieldSimilarity returns for two field names is 1.0
\* when they are equal after lower-casing and stripping "_" and "-", else 0.8
\* when one of the normalized names contains the other, else 0.6 when both
\* contain one of the common words, else max(0, 1 - distance / maxLen) of the
\* normalized names; a name that is empty after normalization scores 0
\* against a name that is not
C24_SimilarityIsFourStep ==
  scored.score # <<>> => scored.score[1] = FourStepSimilarity(scored.field1, scored.field2)

\* ------------------------------------------------------------------------
\* C25
\* ------------------------------------------------------------------------

\* the place of the first occurrence of instruction i in the queue, past the
\* end when it has none
FirstIndex(queue, i) ==
  LET at == {n \in 1..Len(queue) : queue[n] = i}
  IN IF at = {} THEN Len(queue) + 1 ELSE CHOOSE n \in at : \A m \in at : n <= m

\* C25: queued instructions are processed in the order of their submission:
\* whenever the processing of an instruction starts, no instruction that was
\* rejected and queued before it is still waiting to be processed; this
\* includes an instruction submitted after the call in flight has completed
\* and before the retry of the queued one has fired
C25_FifoOrder ==
  [][CallAccepted =>
       \A w \in waiting :
          w.instruction # lastOp'.instruction =>
            FirstIndex(processingQueue', lastOp'.instruction)
              < FirstIndex(processingQueue', w.instruction)]_vars

\* ------------------------------------------------------------------------
\* C26
\* ------------------------------------------------------------------------

\* how many calls of processUserInstruction got past the test of the flag
Started == Len(log) + Len(inflight)

\* C26: the retries process a queued submission at most once: every call that
\* is processed is a caller's submission processed at once or the one retry
\* of a rejected submission, so no more calls are processed than callers have
\* submitted
C26_RetriedAtMostOnce == Started <= submitted

\* ------------------------------------------------------------------------
\* C27
\* ------------------------------------------------------------------------

\* C27: with instructions processed one at a time over an initially empty
\* store, each with the store's mappings of its time, no two active mappings
\* have the same source field
C27_OneActivePerSource ==
  \A i, j \in ActiveIn(mappings) :
    mappings[i].source_field = mappings[j].source_field => i = j

\* ------------------------------------------------------------------------
\* C28
\* ------------------------------------------------------------------------

\* the fields of a vocabulary
FieldsOf(fields) == {fields[n] : n \in 1..Len(fields)}

\* C28: every mapping that processUserInstruction has created or redirected
\* has a source field of the sourceFields supplied and a target field of the
\* targetFields supplied, in their spelling; an instruction that names a field
\* of neither vocabulary leaves the store as it was
C28_FieldsFromVocabulary ==
  \A n \in 1..Len(mappings) :
    /\ mappings[n].source_field \in FieldsOf(SourceFields)
    /\ mappings[n].target_field \in FieldsOf(TargetFields)

\* ------------------------------------------------------------------------
\* C29
\* ------------------------------------------------------------------------

\* the step is a timer's call of processUserInstruction that got past the
\* test of the flag
RetryAccepted == CallAccepted /\ submitted' = submitted

\* the contexts of the rejected submissions of instruction i that wait
WaitingContexts(i) == {w.context : w \in {v \in waiting : v.instruction = i}}

\* C29: a queued instruction that is retried is processed with the context of
\* its own submission (sourceFields, targetFields, currentMappings), not with
\* that of the call whose completion set the timer
C29_RetryWithOwnContext ==
  [][RetryAccepted /\ WaitingContexts(lastOp'.instruction) # {} =>
       Last(inflight').context \in WaitingContexts(lastOp'.instruction)]_vars

\* ------------------------------------------------------------------------
\* C30
\* ------------------------------------------------------------------------

\* the flag is reset, the queue is empty and no retry is pending
Quiescent == ~isProcessing /\ processingQueue = <<>> /\ timers = <<>>

\* C30: once the callers submit no more, the processor comes to rest, with the
\* flag reset, the queue empty and no retry pending, also when the processing
\* of an instruction throws: the instruction is not retried forever
C30_EventuallyQuiescent == <>[]Quiescent

====
